---- MODULE Spec2Model ----
(***************************************************************************)
(* Model of the analysis pipeline of chess-tactics-hub:                    *)
(*   - WorkerPool (src/src/lib/workerPool.ts): task queue, idle workers,   *)
(*     pending map, the onmessage / onerror handlers, terminate;           *)
(*   - generateTactics (src/src/lib/tacticsGenerator.ts): scan of the      *)
(*     games, submission to the pool, filtering, ranking and quotas.       *)
(* The rules engine (chess.js) and the search engine behind a worker are   *)
(* external: a position is a pair <<ply, board>> and what the engine and   *)
(* the evaluator say about a board is a fixed function of the board.       *)
(***************************************************************************)
EXTENDS Integers, Sequences, FiniteSets, TLC

\* ------------------------------------------------------------------ bounds
NumWorkers == 2
MaxTasks == 4
MaxFaults == 1

\* ----------------------------------------------------------- the variables
VARIABLES
  \* WorkerPool fields
  workers, availableWorkers, taskQueue, nextTaskId, pendingTasks,
  \* the outside of the pool: messages posted to each worker and not yet
  \* answered, the promises handed out by analyze, and bookkeeping
  inbox, promise, settleCount, outOfOrder, dispatchLog, faults, crashedTasks,
  lostTasks, lateReplies,
  terminated, unsettledAtTerminate, choseAmong,
  \* generateTactics: its position, its argument and its locals, and the
  \* percentages it has passed to onProgress (as fractions <<num, den>>)
  pc, games, gameIndex, seenPositions, positionsToAnalyze, taskBase,
  analysisResults, tactics, finalTactics, progressLog,
  \* a call of one of the pure functions (the classifier, the search, the
  \* evaluator): its arguments and, once it has returned, its result
  call, ret,
  \* one chess worker (chessWorker.ts): its module variables, the `ready`
  \* flag and the promise of initStockfish, the 10 s timer, the engine behind
  \* it with the 'go' commands it still has to answer, the position of the
  \* handler of each 'analyze' message, and the replies posted to the pool
  stockfish, ready, initPromise, initTimer, engine, analysisQueue,
  currentAnalysisId, pv, handlers, posted,
  \* one InteractiveBoard inside a TacticCard: the component's state (the
  \* position as the moves played from initialFen), the callbacks handed to
  \* setTimeout and not yet run, the card's attempts and solved, and
  \* bookkeeping: the calls of onCorrect, the presses of Reset, and whether
  \* the user has done nothing to the board since the last Reset
  chessState, selectedSquare, currentMoveIndex, message, showingSolution,
  timeouts, attempts, solved, onCorrectCalls, resets, untouched

poolVars == <<workers, availableWorkers, taskQueue, nextTaskId, pendingTasks>>
envVars == <<inbox, promise, settleCount, outOfOrder, dispatchLog, faults,
             crashedTasks, lostTasks, lateReplies, terminated,
             unsettledAtTerminate, choseAmong>>
pipeVars == <<pc, games, gameIndex, seenPositions, positionsToAnalyze, taskBase,
              analysisResults, tactics, finalTactics, progressLog>>
fnVars == <<call, ret>>
workerVars == <<stockfish, ready, initPromise, initTimer, engine, analysisQueue,
                currentAnalysisId, pv, handlers, posted>>
boardVars == <<chessState, selectedSquare, currentMoveIndex, message,
               showingSolution, timeouts, attempts, solved, onCorrectCalls,
               resets, untouched>>
vars == <<poolVars, envVars, pipeVars, fnVars, workerVars, boardVars>>

WorkerIds == 1..NumWorkers

\* positions handed to the pool by a direct caller of analyze
PoolFens == {<<10, "bB">>, <<10, "bD">>}

\* the reply of a worker to an 'analyze' message for position fen:
\* 'result' or 'error' (chessWorker.ts posts one or the other)
ReplyType(fen) == IF fen[2] = "bD" THEN "error" ELSE "result"

\* ------------------------------------------------------------- WorkerPool
\* taskQueue.shift(): the task removed from the queue
NextTask_last(q) == q[Len(q)]
NextTask(q) == Head(q)

RestOfQueue(q) ==
  LET t == NextTask(q)
      i == CHOOSE j \in 1..Len(q) : q[j] = t
  IN  SubSeq(q, 1, i - 1) \o SubSeq(q, i + 1, Len(q))

\* processQueue: the while loop, on a record of the fields it touches
RECURSIVE processQueue(_)
processQueue(s) ==
  IF Len(s.taskQueue) > 0 /\ Len(s.availableWorkers) > 0
  THEN LET task == NextTask(s.taskQueue)
           worker == Head(s.availableWorkers)
       IN  processQueue(
             [taskQueue |-> RestOfQueue(s.taskQueue),
              availableWorkers |-> Tail(s.availableWorkers),
              pendingTasks |-> s.pendingTasks \cup {task.id},
              inbox |-> [s.inbox EXCEPT ![worker] = Append(@, task)],
              dispatchLog |-> Append(s.dispatchLog, task.id),
              choseAmong |-> s.choseAmong \/ Len(s.taskQueue) > 1])
  ELSE s

PoolState == [taskQueue |-> taskQueue, availableWorkers |-> availableWorkers,
              pendingTasks |-> pendingTasks, inbox |-> inbox,
              dispatchLog |-> dispatchLog, choseAmong |-> choseAmong]

SetPool(s) ==
  /\ taskQueue' = s.taskQueue
  /\ availableWorkers' = s.availableWorkers
  /\ pendingTasks' = s.pendingTasks
  /\ inbox' = s.inbox
  /\ dispatchLog' = s.dispatchLog
  /\ choseAmong' = s.choseAmong

\* analyze(fen, depth): a new promise, the task appended, processQueue
analyze(s, id, fen) ==
  processQueue([s EXCEPT !.taskQueue = Append(@, [id |-> id, fen |-> fen])])

\* pendingTasks.delete(data.id)
DeletePending_keep(pending, id) == pending
DeletePending(pending, id) == pending \ {id}

\* the pending entry a reply settles: pendingTasks.get(data.id)
GetPending_any(pending, id) ==
  IF id \in pending \/ pending = {} THEN pending \cap {id}
  ELSE {CHOOSE t \in pending : \A u \in pending : t <= u}
GetPending(pending, id) == pending \cap {id}

\* worker.onmessage for a 'result' or 'error' message carrying data.id
onmessage_noDequeue(s, worker, id) ==
  LET hit == GetPending(s.pendingTasks, id)
  IN  [s EXCEPT !.pendingTasks =
                   IF hit = {} THEN @
                   ELSE DeletePending(@, CHOOSE t \in hit : TRUE),
                !.availableWorkers = Append(@, worker)]

onmessage(s, worker, id) ==
  LET hit == GetPending(s.pendingTasks, id)
      s1 == [s EXCEPT !.pendingTasks =
                         IF hit = {} THEN @
                         ELSE DeletePending(@, CHOOSE t \in hit : TRUE),
                      !.availableWorkers = Append(@, worker)]
  IN  processQueue(s1)

\* worker.onerror
onerror(s, worker) ==
  processQueue([s EXCEPT !.availableWorkers = Append(@, worker)])

\* a promise settles once: later calls of resolve / reject change nothing
Settle(pr, id, how) ==
  [pr EXCEPT ![id + 1] = IF @ = "pending" THEN how ELSE @]

getStatus ==
  [totalWorkers |-> Cardinality(workers),
   availableWorkers |-> Len(availableWorkers),
   queuedTasks |-> Len(taskQueue),
   runningTasks |-> Cardinality(pendingTasks)]

TaskIds == 0..(nextTaskId - 1)

\* how many times resolve or reject was called for task t (outOfOrder
\* records that some task was settled before a task submitted earlier)
settles(t) == settleCount[t + 1]


\* ------------------------------------------------- the engine, per board
\* What a worker returns for a position and what the evaluator and the rules
\* engine say about it, as a function of the board: the returned line
\* (moves, as SAN), how many of its moves replay legally from the position,
\* the evaluator score before and after, and the facts detectPatterns reads.
Quiet == [error |-> FALSE, moves |-> <<>>, legal |-> 0, beforeEval |-> 0,
          afterEval |-> 0, isCapture |-> FALSE, mates |-> FALSE,
          givesCheck |-> FALSE, fork |-> FALSE, pin |-> FALSE,
          sacrifice |-> FALSE, contMate |-> FALSE]

Engine(board) ==
  CASE board = "bA" -> [Quiet EXCEPT !.moves = <<"Qh5+", "Kf8", "Qf7#">>,
                          !.legal = 3, !.beforeEval = 50, !.afterEval = 30000,
                          !.givesCheck = TRUE, !.contMate = TRUE]
    [] board = "bB" -> [Quiet EXCEPT !.moves = <<"Nxe5", "dxe5">>, !.legal = 2,
                          !.afterEval = 400, !.isCapture = TRUE]
    [] board = "bC" -> [Quiet EXCEPT !.moves = <<"Rd1", "Rd8", "Rxd8">>,
                          !.legal = 3, !.beforeEval = -100, !.afterEval = 300,
                          !.fork = TRUE, !.pin = TRUE]
    [] board = "bD" -> [Quiet EXCEPT !.error = TRUE]
    [] board = "bE" -> [Quiet EXCEPT !.moves = <<"Nxe5", "dxe5">>, !.legal = 1,
                          !.afterEval = 600, !.isCapture = TRUE]
    [] board = "bF" -> Quiet
    [] board = "bG" -> [Quiet EXCEPT !.moves = <<"Rd1", "Rd8">>, !.legal = 2,
                          !.afterEval = 250, !.fork = TRUE]
    [] board = "bH" -> [Quiet EXCEPT !.moves = <<"Nxe5", "dxe5", "Rd1">>,
                          !.legal = 3, !.beforeEval = 100, !.afterEval = -450,
                          !.isCapture = TRUE]
    [] board = "bI" -> [Quiet EXCEPT
                          !.moves = <<"Rd1", "Rd8", "Rxd8", "Kf8", "Nxe5", "dxe5">>,
                          !.legal = 6, !.afterEval = 950]
    [] board = "bJ" -> [Quiet EXCEPT !.moves = <<"Rd1", "Rd8">>, !.legal = 2,
                          !.afterEval = 450]
    [] board = "bK" -> [Quiet EXCEPT !.moves = <<"Rd1", "Rd8", "Rxd8", "Kf8">>,
                          !.legal = 2, !.afterEval = 700]
    [] OTHER -> Quiet

\* move.san.includes('+') || move.san.includes('#')
SanHasCheckMark(san) == san \in {"Qh5+", "Qf7#"}

Abs(x) == IF x < 0 THEN -x ELSE x
Min(a, b) == IF a < b THEN a ELSE b

\* ------------------------------------------------------ tacticalPatterns
detectPatterns_noReturn(f, continuation) ==
  (IF f.mates THEN <<"mate-threat">> ELSE <<>>)
    \o (IF f.givesCheck /\ Len(continuation) > 0 THEN <<"forcing">> ELSE <<>>)
    \o (IF f.fork THEN <<"fork">> ELSE <<>>)
    \o (IF f.pin THEN <<"pin">> ELSE <<>>)
    \o (IF f.isCapture /\ Len(continuation) > 0 /\ f.sacrifice
        THEN <<"sacrifice">> ELSE <<>>)

detectPatterns(f, continuation) ==
  IF f.mates THEN <<"mate-threat">>
  ELSE (IF f.givesCheck /\ Len(continuation) > 0 THEN <<"forcing">> ELSE <<>>)
       \o (IF f.fork THEN <<"fork">> ELSE <<>>)
       \o (IF f.pin THEN <<"pin">> ELSE <<>>)
       \o (IF f.isCapture /\ Len(continuation) > 0 /\ f.sacrifice
           THEN <<"sacrifice">> ELSE <<>>)

SwingTactical == 300
SwingCheck == 150
SwingCapture == 200
SwingHard == 800
SwingMedium == 500

analyzeTacticalPosition_signed(f, san, continuation) ==
  LET isCheck == SanHasCheckMark(san)
      evalSwing == f.afterEval - f.beforeEval
      patterns == detectPatterns(f, continuation)
      hasMateThreat == \E i \in 1..Len(patterns) : patterns[i] = "mate-threat"
  IN  [isTactical |-> \/ Len(patterns) > 0
                      \/ evalSwing > SwingTactical
                      \/ (isCheck /\ evalSwing > SwingCheck)
                      \/ (f.isCapture /\ evalSwing > SwingCapture)
                      \/ f.contMate,
       patterns |-> patterns,
       difficulty |-> IF evalSwing > SwingHard \/ hasMateThreat \/ f.contMate
                      THEN "hard"
                      ELSE IF evalSwing > SwingMedium \/ Len(patterns) > 1
                           THEN "medium" ELSE "easy",
       evalSwing |-> evalSwing]

analyzeTacticalPosition(f, san, continuation) ==
  LET isCheck == SanHasCheckMark(san)
      evalSwing == Abs(f.afterEval - f.beforeEval)
      patterns == detectPatterns(f, continuation)
      hasMateThreat == \E i \in 1..Len(patterns) : patterns[i] = "mate-threat"
  IN  [isTactical |-> \/ Len(patterns) > 0
                      \/ evalSwing > SwingTactical
                      \/ (isCheck /\ evalSwing > SwingCheck)
                      \/ (f.isCapture /\ evalSwing > SwingCapture)
                      \/ f.contMate,
       patterns |-> patterns,
       difficulty |-> IF evalSwing > SwingHard \/ hasMateThreat \/ f.contMate
                      THEN "hard"
                      ELSE IF evalSwing > SwingMedium \/ Len(patterns) > 1
                           THEN "medium" ELSE "easy",
       evalSwing |-> evalSwing]

\* ------------------------------------------------------- generateTactics
OpeningHorizon == 10
TailExclusion == 4
ProgressEvery == 10
ProgressSpan == 85
AcceptSwing == 300
MaxSolution == 5
MinSolution == 2
ContinuationEnd == 4
MaxCollected == 20
MaxPerDifficulty == 4
MaxFinal == 10

\* seenPositions.has(fenBefore)
Seen_never(seen, fen) == FALSE
Seen(seen, fen) == fen \in seen

\* chess.reset() and the replay of history[0..i-1] (lines 40-44): it throws
\* at the first move that is not legal from the standard starting position
\* (game.failsAt is the index of that move, the length of the history if
\* there is none: a game loaded from a PGN with a FEN header has one)
ReplayThrows(game, i) == game.failsAt < i

\* the scan of one game: for (i = 10; i < history.length - 4; i++); a throw
\* leaves the loop for the catch of line 59 with what was pushed so far
RECURSIVE ScanFrom(_, _, _, _, _)
ScanFrom(game, gIdx, i, seen, acc) ==
  IF i < Len(game.history) - TailExclusion /\ ~ReplayThrows(game, i)
  THEN LET fenBefore == <<i, game.history[i + 1].board>>
       IN  IF ~Seen(seen, fenBefore)
           THEN ScanFrom(game, gIdx, i + 1, seen \cup {fenBefore},
                  Append(acc, [fenBefore |-> fenBefore,
                               actualMove |-> game.history[i + 1].san,
                               gameUrl |-> game.url,
                               gameIndex |-> gIdx,
                               moveIndex |-> i]))
           ELSE ScanFrom(game, gIdx, i + 1, seen, acc)
  ELSE [seen |-> seen, acc |-> acc]

\* one iteration of games.forEach: a game whose PGN does not load throws
\* before anything is pushed
ScanGame(game, gIdx, seen, acc) ==
  IF game.ok THEN ScanFrom(game, gIdx, OpeningHorizon, seen, acc)
  ELSE [seen |-> seen, acc |-> acc]

\* the test on the engine's top move (lines 98-102)
TopMoveMatches_any(moves, actualMove) == Len(moves) > 0

TopMoveMatches(moves, actualMove) ==
  Len(moves) > 0 /\ moves[1] = actualMove

\* the solution loop (lines 114-124): replay stops at the first illegal move
BuildSolution_noStop(moves, legal, k, solution) ==
  SubSeq(moves, 1, Min(MaxSolution, Len(moves)))

RECURSIVE BuildSolution(_, _, _, _)
BuildSolution(moves, legal, k, solution) ==
  IF k < Min(MaxSolution, Len(moves))
  THEN IF k + 1 <= legal
       THEN BuildSolution(moves, legal, k + 1, Append(solution, moves[k + 1]))
       ELSE solution
  ELSE solution

\* how many moves of the line in data replay legally from fenBefore
LegalFrom(fenBefore, data) ==
  IF data.fen = fenBefore THEN Engine(fenBefore[2]).legal ELSE 0

\* the body of the filter loop for one result: the tactic it pushes, if any
\* the test of the filter loop on what the classifier returned
Accepted_tacticalOnly(info) == info.isTactical

Accepted(info) == info.isTactical /\ info.evalSwing > AcceptSwing

TacticOf(result) ==
  LET moves == Engine(result.bestContinuation.fen[2]).moves
      f == Engine(result.fenBefore[2])
      info == analyzeTacticalPosition(f, result.actualMove,
                SubSeq(moves, 2, Min(ContinuationEnd, Len(moves))))
      solution == BuildSolution(moves,
                    LegalFrom(result.fenBefore, result.bestContinuation), 0, <<>>)
  IN  IF /\ TopMoveMatches(moves, result.actualMove)
         /\ Accepted(info)
         /\ Len(solution) >= MinSolution
      THEN <<[fen |-> result.fenBefore,
              solution |-> SubSeq(solution, 1, Min(MaxSolution, Len(solution))),
              difficulty |-> info.difficulty,
              gameUrl |-> result.gameUrl,
              evaluation |-> info.evalSwing]>>
      ELSE <<>>

\* the filter loop (lines 93-138), with its break at 20 tactics
RECURSIVE FilterFrom(_, _, _)
FilterFrom(results, k, acc) ==
  IF k > Len(results) THEN acc
  ELSE IF results[k].status = "null" THEN FilterFrom(results, k + 1, acc)
  ELSE LET acc1 == acc \o TacticOf(results[k])
       IN  IF Len(acc1) > Len(acc) /\ Len(acc1) >= MaxCollected THEN acc1
           ELSE FilterFrom(results, k + 1, acc1)

\* tactics.sort((a, b) => b.evaluation - a.evaluation): stable, descending
RECURSIVE InsertDesc(_, _)
InsertDesc(sorted, t) ==
  IF sorted = <<>> THEN <<t>>
  ELSE IF Head(sorted).evaluation >= t.evaluation
       THEN <<Head(sorted)>> \o InsertDesc(Tail(sorted), t)
       ELSE <<t>> \o sorted

RECURSIVE SortDesc(_)
SortDesc(ts) ==
  IF ts = <<>> THEN <<>>
  ELSE InsertDesc(SortDesc(SubSeq(ts, 1, Len(ts) - 1)), ts[Len(ts)])

\* difficultyCount[d] < maxPerDifficulty[d]
UnderQuota_off(count, d) == TRUE
UnderQuota(count, d) == count[d] < MaxPerDifficulty

\* the selection loop (lines 150-157)
RECURSIVE SelectFrom(_, _, _, _)
SelectFrom(ts, k, count, final) ==
  IF k > Len(ts) THEN final
  ELSE IF UnderQuota(count, ts[k].difficulty)
       THEN LET final1 == Append(final, ts[k])
                count1 == [count EXCEPT ![ts[k].difficulty] = @ + 1]
            IN  IF Len(final1) >= MaxFinal THEN final1
                ELSE SelectFrom(ts, k + 1, count1, final1)
       ELSE SelectFrom(ts, k + 1, count, final)

Difficulties == {"easy", "medium", "hard"}

SelectFinal(ts) ==
  SelectFrom(SortDesc(ts), 1, [d \in Difficulties |-> 0], <<>>)

\* the percentage of the periodic report, as a fraction (lines 73-76)
AnalysisProgress(index, total) == <<5 * total + index * ProgressSpan, total>>

\* ---------------------------------------------------------------- actions
PoolInit ==
  /\ workers = WorkerIds
  /\ availableWorkers = [i \in 1..NumWorkers |-> i]
  /\ taskQueue = <<>>
  /\ nextTaskId = 0
  /\ pendingTasks = {}
  /\ inbox = [w \in WorkerIds |-> <<>>]
  /\ promise = <<>>
  /\ settleCount = <<>>
  /\ outOfOrder = FALSE
  /\ dispatchLog = <<>>
  /\ faults = 0
  /\ crashedTasks = {}
  /\ lostTasks = {}
  /\ lateReplies = {}
  /\ terminated = FALSE
  /\ unsettledAtTerminate = {}
  /\ choseAmong = FALSE

\* a chess worker that has received nothing yet (the module's initial values)
MaxMsgs == 2
MsgIds == 0..(MaxMsgs - 1)
WorkerInit ==
  /\ stockfish = "null"
  /\ ready = FALSE
  /\ initPromise = "none"
  /\ initTimer = FALSE
  /\ engine = [state |-> "absent", goes |-> <<>>]
  /\ analysisQueue = <<>>
  /\ currentAnalysisId = "null"
  /\ pv = <<>>
  /\ handlers = [m \in MsgIds |-> [at |-> "none"]]
  /\ posted = <<>>

\* a board that has just been mounted (the useState initial values) in a card
\* that has just been mounted
BoardInit ==
  /\ chessState = <<>>
  /\ selectedSquare = "null"
  /\ currentMoveIndex = 0
  /\ message = "Your turn! Make the best move."
  /\ showingSolution = FALSE
  /\ timeouts = <<>>
  /\ attempts = 0
  /\ solved = FALSE
  /\ onCorrectCalls = 0
  /\ resets = 0
  /\ untouched = FALSE

\* no pure function is being called
FnOff ==
  /\ call = [fn |-> "none"]
  /\ ret = [fn |-> "none"]
  /\ WorkerInit
  /\ BoardInit

PipeOff ==
  /\ pc = "off"
  /\ games = <<>>
  /\ gameIndex = 0
  /\ seenPositions = {}
  /\ positionsToAnalyze = <<>>
  /\ taskBase = 0
  /\ analysisResults = <<>>
  /\ tactics = <<>>
  /\ finalTactics = <<>>
  /\ progressLog = <<>>

\* a caller invokes analyze(fen, depth)
Analyze(fen) ==
  /\ nextTaskId < MaxTasks
  /\ nextTaskId' = nextTaskId + 1
  /\ promise' = Append(promise, "pending")
  /\ settleCount' = Append(settleCount, 0)
  /\ SetPool(analyze(PoolState, nextTaskId, fen))
  /\ UNCHANGED <<workers, outOfOrder, faults, crashedTasks, lostTasks,
                 lateReplies, terminated, unsettledAtTerminate>>
  /\ UNCHANGED pipeVars
  /\ UNCHANGED <<fnVars, workerVars, boardVars>>

\* a handler runs only between tasks of the event loop: never while the
\* synchronous part of generateTactics is on the stack (a run is followed
\* up to its return)
EventLoopFree == pc \in {"off", "await"}

\* the continuation of the async callback of candidate k (1-based; the
\* code's index is k - 1) once its promise settles (lines 71-85)
ResultSlot_arrival(results, k) ==
  CHOOSE j \in 1..Len(results) :
    results[j].status = "pending"
      /\ \A i \in 1..(j - 1) : results[i].status # "pending"
ResultSlot(results, k) == k

\* what the callback returns: { ...pos, bestContinuation } after the await, or
\* null from its catch block when the promise was rejected (lines 78-85)
Caught_lost(how, pos, data) ==
  IF how = "resolved"
  THEN [status |-> "ok", fenBefore |-> pos.fenBefore,
        actualMove |-> pos.actualMove, gameUrl |-> pos.gameUrl,
        gameIndex |-> pos.gameIndex, moveIndex |-> pos.moveIndex,
        bestContinuation |-> data]
  ELSE [status |-> "pending"]

Caught(how, pos, data) ==
  IF how = "resolved"
  THEN [status |-> "ok", fenBefore |-> pos.fenBefore,
        actualMove |-> pos.actualMove, gameUrl |-> pos.gameUrl,
        gameIndex |-> pos.gameIndex, moveIndex |-> pos.moveIndex,
        bestContinuation |-> data]
  ELSE [status |-> "null"]

Continuation(k, how, data) ==
  LET slot == ResultSlot(analysisResults, k)
      pos == positionsToAnalyze[slot]
      results1 == [analysisResults EXCEPT ![slot] = Caught(how, pos, data)]
  IN  /\ analysisResults' = results1
      /\ progressLog' =
           IF how = "resolved" /\ (k - 1) % ProgressEvery = 0
           THEN Append(progressLog,
                       AnalysisProgress(k - 1, Len(positionsToAnalyze)))
           ELSE progressLog
      /\ pc' = IF \A i \in 1..Len(results1) : results1[i].status # "pending"
               THEN "filter" ELSE pc
      /\ UNCHANGED <<games, gameIndex, seenPositions, positionsToAnalyze,
                     taskBase, tactics, finalTactics>>

\* worker w answers one of the 'analyze' messages it holds; the pool's
\* onmessage handler runs, then the continuation of whoever awaits the
\* promise it settled
WorkerReply(w) ==
  /\ EventLoopFree
  /\ w \in workers
  /\ \E i \in 1..Len(inbox[w]) :
       LET msg == inbox[w][i]
           how == IF ReplyType(msg.fen) = "result" THEN "resolved" ELSE "rejected"
           data == [id |-> msg.id, fen |-> msg.fen]
           hit == GetPending(pendingTasks, msg.id)
           s0 == [PoolState EXCEPT !.inbox[w] =
                     SubSeq(@, 1, i - 1) \o SubSeq(@, i + 1, Len(@))]
       IN  /\ SetPool(onmessage(s0, w, msg.id))
           /\ IF hit = {}
              THEN UNCHANGED <<promise, settleCount, outOfOrder, pipeVars>>
              ELSE LET t == CHOOSE u \in hit : TRUE
                   IN  /\ promise' = Settle(promise, t, how)
                       /\ settleCount' = [settleCount EXCEPT ![t + 1] = @ + 1]
                       /\ outOfOrder' = (outOfOrder \/ \E u \in 0..(t - 1) :
                                                        settleCount[u + 1] = 0)
                       /\ IF /\ pc = "await" /\ promise[t + 1] = "pending"
                             /\ t >= taskBase
                             /\ t < taskBase + Len(positionsToAnalyze)
                          THEN Continuation(t - taskBase + 1, how, data)
                          ELSE UNCHANGED pipeVars
  /\ UNCHANGED <<workers, nextTaskId, faults, crashedTasks, lostTasks,
                 lateReplies, terminated, unsettledAtTerminate>>
  /\ UNCHANGED <<fnVars, workerVars, boardVars>>

\* worker w raises an uncaught error while it works on a message: the pool's
\* onerror handler runs (the worker itself goes on)
WorkerError(w) ==
  /\ EventLoopFree
  /\ w \in workers
  /\ inbox[w] # <<>>
  /\ faults < MaxFaults
  /\ faults' = faults + 1
  /\ SetPool(onerror(PoolState, w))
  /\ crashedTasks' = crashedTasks \cup {inbox[w][i].id : i \in 1..Len(inbox[w])}
  /\ UNCHANGED <<workers, nextTaskId, promise, settleCount, outOfOrder,
                 lostTasks, lateReplies, terminated, unsettledAtTerminate>>
  /\ UNCHANGED pipeVars
  /\ UNCHANGED <<fnVars, workerVars, boardVars>>

\* worker w will never answer a message it holds (its engine stays silent,
\* or its queue of analyses was cleared): nothing reaches the pool
WorkerStall(w) ==
  /\ EventLoopFree
  /\ inbox[w] # <<>>
  /\ faults < MaxFaults
  /\ faults' = faults + 1
  /\ inbox' = [inbox EXCEPT ![w] = Tail(@)]
  /\ lostTasks' = lostTasks \cup {Head(inbox[w]).id}
  /\ UNCHANGED <<poolVars, promise, settleCount, outOfOrder, dispatchLog,
                 crashedTasks, lateReplies, terminated, unsettledAtTerminate,
                 choseAmong>>
  /\ UNCHANGED pipeVars
  /\ UNCHANGED <<fnVars, workerVars, boardVars>>

\* a 'result' or 'error' message reaches the pool from worker w for a task
\* that was dispatched and is no longer pending (its reply was handled
\* before, or terminate() emptied the pending map): onmessage runs on it.
\* lateReplies records, for each such message, the tasks whose promise the
\* handler settled, whether every promise is as it was, and whether the
\* handler went on to give the worker back and process the queue.
LateReply(w, type, id) ==
  /\ EventLoopFree
  /\ faults < MaxFaults
  /\ id \in {dispatchLog[i] : i \in 1..Len(dispatchLog)} \ pendingTasks
  /\ LET how == IF type = "result" THEN "resolved" ELSE "rejected"
         hit == GetPending(pendingTasks, id)
         s1 == onmessage(PoolState, w, id)
         promise1 == IF hit = {} THEN promise
                     ELSE Settle(promise, CHOOSE u \in hit : TRUE, how)
     IN  /\ SetPool(s1)
         /\ promise' = promise1
         /\ settleCount' = IF hit = {} THEN settleCount
                           ELSE [settleCount EXCEPT
                                   ![(CHOOSE u \in hit : TRUE) + 1] = @ + 1]
         /\ lateReplies' = lateReplies \cup
              {[id |-> id, settled |-> hit,
                intact |-> promise1 = promise,
                completed |-> (s1.taskQueue = <<>> \/ s1.availableWorkers = <<>>)
                                /\ (pendingTasks \subseteq s1.pendingTasks)]}
  /\ faults' = faults + 1
  /\ UNCHANGED <<workers, nextTaskId, outOfOrder, crashedTasks, lostTasks,
                 terminated, unsettledAtTerminate>>
  /\ UNCHANGED pipeVars
  /\ UNCHANGED <<fnVars, workerVars, boardVars>>

\* terminate(): the workers are killed and every collection is emptied
Terminate ==
  /\ ~terminated
  /\ terminated' = TRUE
  /\ unsettledAtTerminate' = {t \in TaskIds : promise[t + 1] = "pending"}
  /\ workers' = {}
  /\ availableWorkers' = <<>>
  /\ taskQueue' = <<>>
  /\ pendingTasks' = {}
  /\ inbox' = [w \in WorkerIds |-> <<>>]
  /\ UNCHANGED <<nextTaskId, promise, settleCount, outOfOrder, dispatchLog,
                 faults, crashedTasks, lostTasks, lateReplies, choseAmong>>
  /\ UNCHANGED pipeVars
  /\ UNCHANGED <<fnVars, workerVars, boardVars>>

Init == PoolInit /\ PipeOff /\ FnOff

Next ==
  \/ \E fen \in PoolFens : Analyze(fen)
  \/ \E w \in WorkerIds : WorkerReply(w)
  \/ \E w \in WorkerIds : WorkerError(w)
  \/ \E w \in WorkerIds : WorkerStall(w)
  \/ Terminate

Spec == Init /\ [][Next]_vars

\* the pool with replies that arrive for tasks no longer pending (and no
\* crash or silent worker)
NextLate ==
  \/ \E fen \in PoolFens : Analyze(fen)
  \/ \E w \in WorkerIds : WorkerReply(w)
  \/ \E w \in WorkerIds, type \in {"result", "error"}, id \in TaskIds :
       LateReply(w, type, id)
  \/ Terminate

SpecLate == Init /\ [][NextLate]_vars

\* ----------------------------------------------- generateTactics, by step
\* the batches of games a run is given: each game is a URL, whether its PGN
\* loads, and its history; history[j] is move j - 1 with the board it is
\* played on (the position before move i is <<i, board>>: a FEN carries the
\* move counters, so equal positions sit at equal move indices)
MaxGames == 2
MaxCands == 2
MaxPositions == 2

Filler == [board |-> "b0", san |-> "e4"]

CandChoices ==
  {[board |-> "bA", san |-> "Qh5+"], [board |-> "bA", san |-> "Kf8"],
   [board |-> "bD", san |-> "Nxe5"], [board |-> "bF", san |-> "Nxe5"]}

History(cands) ==
  [j \in 1..OpeningHorizon |-> Filler] \o cands
    \o [j \in 1..TailExclusion |-> Filler]

\* where the replay of a game with n candidate moves can first fail: nowhere,
\* at its first move, or at a candidate move that is not the last one
FailPoints(n) ==
  {OpeningHorizon + n + TailExclusion}
    \cup (IF n > 0 THEN {0} ELSE {})
    \cup {OpeningHorizon + m : m \in 0..(n - 2)}

\* the games with n candidate moves, and the game whose PGN does not load
BodiesWith(n) ==
  {[ok |-> TRUE, history |-> History(c), failsAt |-> f] :
     c \in [1..n -> CandChoices], f \in FailPoints(n)}
    \cup (IF n = 0 THEN {[ok |-> FALSE, history |-> <<>>, failsAt |-> 0]}
          ELSE {})

\* the batches of n games with at most budget candidate moves in all
RECURSIVE BatchesOf(_, _)
BatchesOf(n, budget) ==
  IF n = 0 THEN {<<>>}
  ELSE UNION {{<<b>> \o rest : b \in BodiesWith(k),
                               rest \in BatchesOf(n - 1, budget - k)} :
              k \in 0..Min(MaxCands, budget)}

WithUrls(batch) ==
  [g \in 1..Len(batch) |->
     [url |-> g, ok |-> batch[g].ok, history |-> batch[g].history,
      failsAt |-> batch[g].failsAt]]

Batches ==
  {WithUrls(b) : b \in UNION {BatchesOf(n, MaxPositions) : n \in 0..MaxGames}}

PipeStart(batches) ==
  /\ pc = "start"
  /\ games \in batches
  /\ gameIndex = 0
  /\ seenPositions = {}
  /\ positionsToAnalyze = <<>>
  /\ taskBase = 0
  /\ analysisResults = <<>>
  /\ tactics = <<>>
  /\ finalTactics = <<>>
  /\ progressLog = <<>>

\* lines 14-21: the locals and onProgress(0)
Start ==
  /\ pc = "start"
  /\ pc' = "scan"
  /\ gameIndex' = 1
  /\ progressLog' = Append(progressLog, <<0, 1>>)
  /\ UNCHANGED <<games, seenPositions, positionsToAnalyze, taskBase,
                 analysisResults, tactics, finalTactics>>
  /\ UNCHANGED <<poolVars, envVars>>
  /\ UNCHANGED <<fnVars, workerVars, boardVars>>

\* lines 32-62: one iteration of games.forEach
Scan ==
  /\ pc = "scan"
  /\ gameIndex <= Len(games)
  /\ LET r == ScanGame(games[gameIndex], gameIndex - 1, seenPositions,
                       positionsToAnalyze)
     IN  /\ seenPositions' = r.seen
         /\ positionsToAnalyze' = r.acc
  /\ gameIndex' = gameIndex + 1
  /\ UNCHANGED <<pc, games, taskBase, analysisResults, tactics, finalTactics,
                 progressLog>>
  /\ UNCHANGED <<poolVars, envVars>>
  /\ UNCHANGED <<fnVars, workerVars, boardVars>>

\* lines 66-88: onProgress(5), then positionsToAnalyze.map calls analyze for
\* every candidate before anything else runs, then the await of Promise.all
RECURSIVE SubmitFrom(_, _, _)
SubmitFrom(s, id, k) ==
  IF k > Len(positionsToAnalyze) THEN s
  ELSE SubmitFrom(analyze(s, id, positionsToAnalyze[k].fenBefore), id + 1, k + 1)

Submit ==
  /\ pc = "scan"
  /\ gameIndex > Len(games)
  /\ LET n == Len(positionsToAnalyze)
     IN  /\ pc' = IF n = 0 THEN "filter" ELSE "await"
         /\ taskBase' = nextTaskId
         /\ nextTaskId' = nextTaskId + n
         /\ promise' = promise \o [k \in 1..n |-> "pending"]
         /\ settleCount' = settleCount \o [k \in 1..n |-> 0]
         /\ analysisResults' = [k \in 1..n |-> [status |-> "pending"]]
         /\ SetPool(SubmitFrom(PoolState, nextTaskId, 1))
  /\ progressLog' = Append(progressLog, <<5, 1>>)
  /\ UNCHANGED <<games, gameIndex, seenPositions, positionsToAnalyze, tactics,
                 finalTactics>>
  /\ UNCHANGED <<workers, outOfOrder, faults, crashedTasks, lostTasks,
                 lateReplies, terminated, unsettledAtTerminate>>
  /\ UNCHANGED <<fnVars, workerVars, boardVars>>

\* lines 90-140: onProgress(90) and the filter loop
Filter ==
  /\ pc = "filter"
  /\ pc' = "final"
  /\ progressLog' = Append(progressLog, <<90, 1>>)
  /\ tactics' = FilterFrom(analysisResults, 1, <<>>)
  /\ UNCHANGED <<games, gameIndex, seenPositions, positionsToAnalyze, taskBase,
                 analysisResults, finalTactics>>
  /\ UNCHANGED <<poolVars, envVars>>
  /\ UNCHANGED <<fnVars, workerVars, boardVars>>

\* lines 142-163: onProgress(95), the sort, the quotas, onProgress(100)
Finalize ==
  /\ pc = "final"
  /\ pc' = "done"
  /\ progressLog' = progressLog \o << <<95, 1>>, <<100, 1>> >>
  /\ tactics' = SortDesc(tactics)
  /\ finalTactics' = SelectFinal(tactics)
  /\ UNCHANGED <<games, gameIndex, seenPositions, positionsToAnalyze, taskBase,
                 analysisResults>>
  /\ UNCHANGED <<poolVars, envVars>>
  /\ UNCHANGED <<fnVars, workerVars, boardVars>>

InitPipe == PoolInit /\ PipeStart(Batches) /\ FnOff

\* a run with workers that answer ('result' or 'error') or stay silent; the
\* onerror handler touches only the pool's idle list and is followed in Spec
NextPipe ==
  \/ Start
  \/ Scan
  \/ Submit
  \/ \E w \in WorkerIds : WorkerReply(w)
  \/ \E w \in WorkerIds : WorkerStall(w)
  \/ Filter
  \/ Finalize

SpecPipe == InitPipe /\ [][NextPipe]_vars


\* a run on one long game: enough candidate moves for two periodic progress
\* reports (indices 0 and ProgressEvery)
LongGame ==
  [url |-> 1, ok |-> TRUE,
   history |-> History([k \in 1..(ProgressEvery + 1) |->
                          [board |-> "bB", san |-> "Nxe5"]]),
   failsAt |-> OpeningHorizon + ProgressEvery + 1 + TailExclusion]

InitLong == PoolInit /\ PipeStart({<<LongGame>>}) /\ FnOff

\* the runs of it in which every worker answers and none raises an error
NextLong ==
  \/ Start
  \/ Scan
  \/ Submit
  \/ \E w \in WorkerIds : WorkerReply(w)
  \/ Filter
  \/ Finalize

SpecLong == InitLong /\ [][NextLong]_vars

\* the filter and the selection as a function of the analysis results: a run
\* is taken up where Promise.all has resolved, on one game whose candidate
\* moves sit on the listed boards and were all analysed in submission order
MaxShort == 2
MaxLong == 22

SelectBoards ==
  <<"bA", "bB", "bC", "bH", "bI", "bJ", "bD", "bE", "bG", "bK">>

BoardLists ==
  UNION {[1..n -> {SelectBoards[i] : i \in 1..Len(SelectBoards)}] :
         n \in 0..MaxShort}
    \cup {[k \in 1..n |-> SelectBoards[((a * k + b) % Len(SelectBoards)) + 1]] :
          n \in 0..MaxLong, a \in 0..(Len(SelectBoards) - 1),
          b \in 0..(Len(SelectBoards) - 1)}
    \cup {[k \in 1..n |-> IF k <= MaxCollected THEN SelectBoards[a]
                                                ELSE SelectBoards[b]] :
          n \in (MaxCollected + 1)..MaxLong, a \in 1..Len(SelectBoards),
          b \in 1..Len(SelectBoards)}

TopMove(board) ==
  IF Engine(board).moves = <<>> THEN "e4" ELSE Engine(board).moves[1]

GameOn(boards) ==
  [url |-> 1, ok |-> TRUE,
   history |-> History([k \in 1..Len(boards) |->
                          [board |-> boards[k], san |-> TopMove(boards[k])]]),
   failsAt |-> OpeningHorizon + Len(boards) + TailExclusion]

\* what the callback of a candidate returns once its analysis is answered
ResultOf(pos, id) ==
  IF Engine(pos.fenBefore[2]).error THEN [status |-> "null"]
  ELSE [status |-> "ok", fenBefore |-> pos.fenBefore,
        actualMove |-> pos.actualMove, gameUrl |-> pos.gameUrl,
        gameIndex |-> pos.gameIndex, moveIndex |-> pos.moveIndex,
        bestContinuation |-> [id |-> id, fen |-> pos.fenBefore]]

AfterAwait(boards) ==
  LET game == GameOn(boards)
      r == ScanGame(game, 0, {}, <<>>)
      n == Len(r.acc)
  IN  /\ workers = WorkerIds
      /\ availableWorkers = [i \in 1..NumWorkers |-> i]
      /\ taskQueue = <<>>
      /\ nextTaskId = n
      /\ pendingTasks = {}
      /\ inbox = [w \in WorkerIds |-> <<>>]
      /\ promise = [k \in 1..n |-> IF Engine(r.acc[k].fenBefore[2]).error
                                   THEN "rejected" ELSE "resolved"]
      /\ settleCount = [k \in 1..n |-> 1]
      /\ outOfOrder = FALSE
      /\ dispatchLog = [k \in 1..n |-> k - 1]
      /\ faults = 0
      /\ crashedTasks = {}
      /\ lostTasks = {}
      /\ lateReplies = {}
      /\ terminated = FALSE
      /\ unsettledAtTerminate = {}
      /\ choseAmong = (n > NumWorkers + 1)
      /\ pc = "filter"
      /\ games = <<game>>
      /\ gameIndex = 2
      /\ seenPositions = r.seen
      /\ positionsToAnalyze = r.acc
      /\ taskBase = 0
      /\ analysisResults = [k \in 1..n |-> ResultOf(r.acc[k], k - 1)]
      /\ tactics = <<>>
      /\ finalTactics = <<>>
      /\ progressLog = << <<0, 1>>, <<5, 1>> >>
           \o [j \in 1..Cardinality({k \in 1..n :
                                      /\ (k - 1) % ProgressEvery = 0
                                      /\ ~Engine(r.acc[k].fenBefore[2]).error}) |->
                 <<5, 1>>]

InitSelect == FnOff /\ \E boards \in BoardLists : AfterAwait(boards)

NextSelect == Filter \/ Finalize

SpecSelect == InitSelect /\ [][NextSelect]_vars

\* --------------------------- the classifier and the object it is given
\* An object is the position it was built from and the moves played on it
\* since.
NewChess(fen) == [fen |-> fen, history |-> <<>>]
FenOf(chess) == <<chess.fen, chess.history>>
\* chess.move(move) and chess.undo()
MoveOn(chess, san) == [chess EXCEPT !.history = Append(@, san)]
UndoOn(chess) ==
  IF chess.history = <<>> THEN chess
  ELSE [chess EXCEPT !.history = SubSeq(@, 1, Len(@) - 1)]

RECURSIVE ReplayOn(_, _)
ReplayOn(chess, line) ==
  IF line = <<>> THEN chess ELSE ReplayOn(MoveOn(chess, Head(line)), Tail(line))

\* detectPatterns: the object on return (lines 76, 79-83, 102-111, 120)
ChessAfterDetect_mateKept(f, san, continuation, chess) ==
  LET c1 == MoveOn(chess, san)
  IN  IF f.mates THEN c1 ELSE UndoOn(c1)

ChessAfterDetect(f, san, continuation, chess) ==
  LET c1 == MoveOn(chess, san)
  IN  IF f.mates THEN UndoOn(c1)
      ELSE LET testChess == ReplayOn(NewChess(FenOf(c1)),
                                     SubSeq(continuation, 1,
                                            Min(2, Len(continuation))))
           IN  UndoOn(c1)

\* analyzeTacticalPosition: the object on return (lines 19-34, 40)
ChessAfterAnalyze(f, san, continuation, chess) ==
  LET c1 == MoveOn(chess, san)
      continuationChess == ReplayOn(NewChess(FenOf(c1)), continuation)
      c2 == UndoOn(c1)
  IN  ChessAfterDetect(f, san, continuation, c2)

\* ------------------------------------------- the classifier, call by call
\* the arguments of a call of analyzeTacticalPosition: what the rules engine
\* and the evaluator say about the position and the move (the scores sit on
\* both sides of every threshold), the SAN of the move, the continuation
ClassifyScores == {0, 150, 151, 200, 201, 300, 301, 500, 501, 800, 801}

ClassifyFacts ==
  {[Quiet EXCEPT !.beforeEval = b, !.afterEval = a, !.isCapture = cap,
                 !.mates = m, !.givesCheck = chk, !.fork = fk, !.pin = pn,
                 !.sacrifice = sac, !.contMate = cm] :
     b \in {0, 301}, a \in ClassifyScores, cap \in BOOLEAN, m \in BOOLEAN,
     chk \in BOOLEAN, fk \in BOOLEAN, pn \in BOOLEAN, sac \in BOOLEAN,
     cm \in BOOLEAN}

ClassifyCalls ==
  {[fn |-> "classify", f |-> f, san |-> san, continuation |-> c,
    chess |-> NewChess("fenBefore")] :
     f \in ClassifyFacts, san \in {"Nxe5", "Qh5+"},
     c \in {<<>>, <<"Kf8", "Qf7#">>}}

Classify ==
  /\ call.fn = "classify"
  /\ ret.fn = "none"
  /\ ret' = [fn |-> "classify",
             info |-> analyzeTacticalPosition(call.f, call.san,
                                              call.continuation),
             chess |-> ChessAfterAnalyze(call.f, call.san, call.continuation,
                                         call.chess)]
  /\ UNCHANGED <<poolVars, envVars, pipeVars, call, workerVars, boardVars>>

InitClassify ==
  /\ PoolInit /\ PipeOff /\ WorkerInit /\ BoardInit
  /\ call \in ClassifyCalls
  /\ ret = [fn |-> "none"]

NextClassify == Classify

SpecClassify == InitClassify /\ [][NextClassify]_vars

\* ------------------------------------------------ the search, call by call
\* A position is a node of a game tree: the evaluator's score for it, whether
\* the game is over there, and its legal moves in the order chess.moves()
\* lists them, each with the score orderMoves gives it and the position it
\* leads to.
Infinity == 1000000
WidthDepth == 6
WidthCap == 20
NodeCeiling == 10

Max(a, b) == IF a > b THEN a ELSE b

Leaf(s) == [score |-> s, over |-> FALSE, kids |-> <<>>]
Kid(m, p, n) == [move |-> m, prio |-> p, node |-> n]

\* the arrangements of the legal moves handed to orderMoves
Arrangements == {"listed", "reversed"}
Arrange(arr, kids) ==
  IF arr = "listed" THEN kids
  ELSE [i \in 1..Len(kids) |-> kids[Len(kids) + 1 - i]]

\* orderMoves: .sort((a, b) => b.score - a.score), stable and descending
RECURSIVE InsertByScore(_, _)
InsertByScore(sorted, k) ==
  IF sorted = <<>> THEN <<k>>
  ELSE IF Head(sorted).prio >= k.prio
       THEN <<Head(sorted)>> \o InsertByScore(Tail(sorted), k)
       ELSE <<k>> \o sorted

RECURSIVE orderMoves(_)
orderMoves(moves) ==
  IF moves = <<>> THEN <<>>
  ELSE InsertByScore(orderMoves(SubSeq(moves, 1, Len(moves) - 1)),
                     moves[Len(moves)])

\* searchWidth (line 231)
SearchWidth(depth, n) == IF depth > WidthDepth THEN Min(WidthCap, n) ELSE n

\* minimax and its loop over the ordered moves; cnt counts the calls of
\* minimax so far and late those that went on to search their moves although
\* more than NodeCeiling calls had been made
RECURSIVE minimax(_, _, _, _, _, _, _, _, _)
RECURSIVE SearchLoop(_, _, _, _, _, _, _, _, _, _, _, _)
minimax(node, depth, alpha, beta, isMaximizing, currentLine, arr, cnt, late) ==
  IF depth = 0 \/ node.over
  THEN [moves |-> currentLine, score |-> node.score, cnt |-> cnt + 1,
        late |-> late]
  ELSE LET orderedMoves == orderMoves(Arrange(arr, node.kids))
       IN  SearchLoop(orderedMoves, 1,
                      SearchWidth(depth, Len(orderedMoves)), depth, alpha,
                      beta, isMaximizing, currentLine,
                      [moves |-> currentLine,
                       score |-> IF isMaximizing THEN -Infinity ELSE Infinity],
                      arr, cnt + 1,
                      late + (IF cnt + 1 > NodeCeiling THEN 1 ELSE 0))

SearchLoop(orderedMoves, i, searchWidth, depth, alpha, beta, isMaximizing, currentLine, bestLine, arr, cnt, late) ==
  IF i > searchWidth
  THEN [moves |-> bestLine.moves, score |-> bestLine.score, cnt |-> cnt,
        late |-> late]
  ELSE LET result == minimax(orderedMoves[i].node, depth - 1, alpha, beta,
                             ~isMaximizing,
                             Append(currentLine, orderedMoves[i].move),
                             arr, cnt, late)
           better == IF isMaximizing THEN result.score > bestLine.score
                     ELSE result.score < bestLine.score
           best1 == IF better
                    THEN [moves |-> result.moves, score |-> result.score]
                    ELSE bestLine
           alpha1 == IF isMaximizing THEN Max(alpha, result.score) ELSE alpha
           beta1 == IF isMaximizing THEN beta ELSE Min(beta, result.score)
       IN  IF beta1 <= alpha1
           THEN [moves |-> best1.moves, score |-> best1.score,
                 cnt |-> result.cnt, late |-> result.late]
           ELSE SearchLoop(orderedMoves, i + 1, searchWidth, depth, alpha1,
                           beta1, isMaximizing, currentLine, best1, arr,
                           result.cnt, result.late)

\* findBestLine(chess, depth): the root maximizes when White is to move
findBestLine_window(root, depth, arr) ==
  minimax(root.node, depth, 10, Infinity, root.white, <<>>, arr, 0, 0)

findBestLine(root, depth, arr) ==
  minimax(root.node, depth, -Infinity, Infinity, root.white, <<>>, arr, 0, 0)

\* the positions searched: every two-ply tree of quiet moves with leaf scores
\* in LeafScores, for either side to move, and a position with more than
\* WidthCap quiet moves, each followed by forced replies, the later the better
LeafScores == {0, 10, 20}

TwoPly(s) ==
  [score |-> 0, over |-> FALSE,
   kids |-> <<Kid("Rd1", 0, [score |-> 0, over |-> FALSE,
                             kids |-> <<Kid("Rd8", 0, Leaf(s[1])),
                                        Kid("Kf8", 0, Leaf(s[2]))>>]),
              Kid("e4", 0, [score |-> 0, over |-> FALSE,
                            kids |-> <<Kid("Rd8", 0, Leaf(s[3])),
                                       Kid("Kf8", 0, Leaf(s[4]))>>])>>]

\* every three-ply tree of quiet moves with leaf scores in LeafScores, and
\* every tree whose first move ends the game and whose second is answered
TwoMoves(a, b, na, nb) == <<Kid(a, 0, na), Kid(b, 0, nb)>>

Inner(kids) == [score |-> 0, over |-> FALSE, kids |-> kids]

ThreePly(s) ==
  Inner(TwoMoves("Rd1", "e4",
    Inner(TwoMoves("Rd8", "Kf8",
      Inner(TwoMoves("Rd2", "h3", Leaf(s[1]), Leaf(s[2]))),
      Inner(TwoMoves("Rd2", "h3", Leaf(s[3]), Leaf(s[4]))))),
    Inner(TwoMoves("Rd8", "Kf8",
      Inner(TwoMoves("Rd2", "h3", Leaf(s[5]), Leaf(s[6]))),
      Inner(TwoMoves("Rd2", "h3", Leaf(s[7]), Leaf(s[8])))))))

Ended(s) == [score |-> s, over |-> TRUE, kids |-> <<>>]

EndsEarly(s) ==
  Inner(TwoMoves("Rd1", "e4",
    Ended(s[1]),
    Inner(TwoMoves("Rd8", "Kf8",
      Inner(TwoMoves("Rd2", "h3", Leaf(s[2]), Leaf(s[3]))),
      Inner(TwoMoves("Rd2", "h3", Leaf(s[4]), Ended(s[5])))))))

RECURSIVE Forced(_, _)
Forced(s, n) ==
  IF n = 0 THEN Leaf(s)
  ELSE [score |-> s, over |-> FALSE, kids |-> <<Kid("Kf8", 0, Forced(s, n - 1))>>]

Wide ==
  [score |-> 0, over |-> FALSE,
   kids |-> [k \in 1..(WidthCap + 1) |-> Kid(k, 0, Forced(k, WidthDepth))]]

SearchCalls ==
  {[fn |-> "search", root |-> [node |-> TwoPly(s), white |-> w], depth |-> 2] :
     s \in [1..4 -> LeafScores], w \in BOOLEAN}
    \cup {[fn |-> "search", root |-> [node |-> ThreePly(s), white |-> w],
           depth |-> 3] : s \in [1..8 -> LeafScores], w \in BOOLEAN}
    \cup {[fn |-> "search", root |-> [node |-> EndsEarly(s), white |-> w],
           depth |-> 3] : s \in [1..5 -> LeafScores], w \in BOOLEAN}
    \cup {[fn |-> "search", root |-> [node |-> Wide, white |-> w],
           depth |-> WidthDepth + 1] : w \in BOOLEAN}

Search ==
  /\ call.fn = "search"
  /\ ret.fn = "none"
  /\ ret' = [fn |-> "search",
             result |-> [arr \in Arrangements |->
                           findBestLine(call.root, call.depth, arr)]]
  /\ UNCHANGED <<poolVars, envVars, pipeVars, call, workerVars, boardVars>>

InitSearch ==
  /\ PoolInit /\ PipeOff /\ WorkerInit /\ BoardInit
  /\ call \in SearchCalls
  /\ ret = [fn |-> "none"]

NextSearch == Search

SpecSearch == InitSearch /\ [][NextSearch]_vars

\* ------------------------------------------------ the evaluator, call by call
\* A piece is a record [type, color, file, rank] with file in 0..7 (a to h)
\* and rank in 1..8; a position holds its set of pieces, the side to move and
\* what its history makes of it (fifty moves without progress, a third
\* repetition, or neither).
\* No position here has castling or en-passant rights.
Files == 0..7
Ranks == 1..8
NoPiece == [type |-> "none"]
Opposite(color) == IF color = "w" THEN "b" ELSE "w"

OnSquare(ps, f, r) == {p \in ps : p.file = f /\ p.rank = r}
Sgn(x) == IF x > 0 THEN 1 ELSE IF x < 0 THEN -1 ELSE 0

\* the squares strictly between a piece and a square on one of its lines
ClearBetween(ps, p, f, r) ==
  LET df == f - p.file
      dr == r - p.rank
      n == Max(Abs(df), Abs(dr))
  IN  \A k \in 1..(n - 1) :
        OnSquare(ps, p.file + k * Sgn(df), p.rank + k * Sgn(dr)) = {}

Forward(color) == IF color = "w" THEN 1 ELSE -1
PawnStart(color) == IF color = "w" THEN 2 ELSE 7
PawnLast(color) == IF color = "w" THEN 8 ELSE 1

\* piece p attacks the square (f, r)
Attacks(ps, p, f, r) ==
  LET df == Abs(f - p.file)
      dr == Abs(r - p.rank)
      straight == (df = 0) # (dr = 0)
      diagonal == df = dr /\ df # 0
  IN  CASE p.type = "n" -> {df, dr} = {1, 2}
        [] p.type = "k" -> Max(df, dr) = 1
        [] p.type = "p" -> df = 1 /\ r = p.rank + Forward(p.color)
        [] p.type = "r" -> straight /\ ClearBetween(ps, p, f, r)
        [] p.type = "b" -> diagonal /\ ClearBetween(ps, p, f, r)
        [] p.type = "q" -> (straight \/ diagonal) /\ ClearBetween(ps, p, f, r)

\* the king of the colour is attacked
Attacked(ps, color) ==
  \E k \in ps :
    /\ k.type = "k" /\ k.color = color
    /\ \E p \in ps : p.color # color /\ Attacks(ps, p, k.file, k.rank)

\* the squares piece p may go to, leaving aside its own king's safety
Targets(ps, p) ==
  IF p.type = "p"
  THEN LET r1 == p.rank + Forward(p.color)
           r2 == r1 + Forward(p.color)
       IN  {<<f, r1>> : f \in {g \in Files : /\ Abs(g - p.file) = 1
                                            /\ \E q \in OnSquare(ps, g, r1) :
                                                 q.color # p.color}}
             \cup (IF OnSquare(ps, p.file, r1) = {}
                   THEN {<<p.file, r1>>}
                          \cup (IF /\ p.rank = PawnStart(p.color)
                                   /\ OnSquare(ps, p.file, r2) = {}
                                THEN {<<p.file, r2>>} ELSE {})
                   ELSE {})
  ELSE {s \in Files \X Ranks :
          /\ Attacks(ps, p, s[1], s[2])
          /\ \A q \in OnSquare(ps, s[1], s[2]) : q.color # p.color}

AfterMove(ps, p, s) ==
  (ps \ ({p} \cup OnSquare(ps, s[1], s[2])))
    \cup {[p EXCEPT !.file = s[1], !.rank = s[2]]}

LegalTargets(ps, p) ==
  {s \in Targets(ps, p) : ~Attacked(AfterMove(ps, p, s), p.color)}

RECURSIVE SumOver(_, _)
SumOver(S, g) ==
  IF S = {} THEN 0
  ELSE LET x == CHOOSE y \in S : TRUE IN g[x] + SumOver(S \ {x}, g)

\* chess.moves().length: a pawn reaching its last rank has one move for each
\* of the four pieces it can become
moves(chess) ==
  LET mine == {p \in chess.pieces : p.color = chess.turn}
  IN  SumOver(mine,
              [p \in mine |->
                 LET ts == LegalTargets(chess.pieces, p)
                 IN  IF p.type = "p" /\ p.rank + Forward(p.color) = PawnLast(p.color)
                     THEN 4 * Cardinality(ts)
                     ELSE Cardinality(ts)])

inCheck(chess) == Attacked(chess.pieces, chess.turn)
isCheckmate(chess) == inCheck(chess) /\ moves(chess) = 0
isStalemate(chess) == ~inCheck(chess) /\ moves(chess) = 0
\* kings alone, a king and one minor piece against a king, or kings and
\* bishops that all stand on squares of one colour
isInsufficientMaterial(chess) ==
  LET ps == chess.pieces
      bishops == {p \in ps : p.type = "b"}
      minors == {p \in ps : p.type \in {"b", "n"}}
  IN  \/ Cardinality(ps) = 2
      \/ Cardinality(ps) = 3 /\ Cardinality(minors) = 1
      \/ /\ Cardinality(ps) = Cardinality(bishops) + 2
         /\ \A p, q \in bishops :
              (p.file + p.rank) % 2 = (q.file + q.rank) % 2
isDrawByFiftyMoves(chess) == chess.history = "fifty"
isThreefoldRepetition(chess) == chess.history = "threefold"
isDraw(chess) ==
  \/ isDrawByFiftyMoves(chess)
  \/ isStalemate(chess)
  \/ isInsufficientMaterial(chess)

\* chess.board(): eight rows, the first one being the eighth rank
board(chess) ==
  [row \in 0..7 |->
     [file \in Files |->
        LET here == OnSquare(chess.pieces, file, 8 - row)
        IN  IF here = {} THEN NoPiece ELSE CHOOSE p \in here : TRUE]]

pieceValues == [p |-> 100, n |-> 320, b |-> 330, r |-> 500, q |-> 900, k |-> 20000]

pawnTable ==
  <<0,   0,   0,   0,   0,   0,   0,   0,
      50,  50,  50,  50,  50,  50,  50,  50,
      10,  10,  20,  30,  30,  20,  10,  10,
       5,   5,  10,  25,  25,  10,   5,   5,
       0,   0,   0,  20,  20,   0,   0,   0,
       5,  -5, -10,   0,   0, -10,  -5,   5,
       5,  10,  10, -20, -20,  10,  10,   5,
       0,   0,   0,   0,   0,   0,   0,   0>>

knightTable ==
  <<-50, -40, -30, -30, -30, -30, -40, -50,
     -40, -20,   0,   0,   0,   0, -20, -40,
     -30,   0,  10,  15,  15,  10,   0, -30,
     -30,   5,  15,  20,  20,  15,   5, -30,
     -30,   0,  15,  20,  20,  15,   0, -30,
     -30,   5,  10,  15,  15,  10,   5, -30,
     -40, -20,   0,   5,   5,   0, -20, -40,
     -50, -40, -30, -30, -30, -30, -40, -50>>

bishopTable ==
  <<-20, -10, -10, -10, -10, -10, -10, -20,
     -10,   0,   0,   0,   0,   0,   0, -10,
     -10,   0,   5,  10,  10,   5,   0, -10,
     -10,   5,   5,  10,  10,   5,   5, -10,
     -10,   0,  10,  10,  10,  10,   0, -10,
     -10,  10,  10,  10,  10,  10,  10, -10,
     -10,   5,   0,   0,   0,   0,   5, -10,
     -20, -10, -10, -10, -10, -10, -10, -20>>

rookTable ==
  <<0,   0,   0,   0,   0,   0,   0,   0,
       5,  10,  10,  10,  10,  10,  10,   5,
      -5,   0,   0,   0,   0,   0,   0,  -5,
      -5,   0,   0,   0,   0,   0,   0,  -5,
      -5,   0,   0,   0,   0,   0,   0,  -5,
      -5,   0,   0,   0,   0,   0,   0,  -5,
      -5,   0,   0,   0,   0,   0,   0,  -5,
       0,   0,   0,   5,   5,   0,   0,   0>>

queenTable ==
  <<-20, -10, -10,  -5,  -5, -10, -10, -20,
     -10,   0,   0,   0,   0,   0,   0, -10,
     -10,   0,   5,   5,   5,   5,   0, -10,
      -5,   0,   5,   5,   5,   5,   0,  -5,
       0,   0,   5,   5,   5,   5,   0,  -5,
     -10,   5,   5,   5,   5,   5,   0, -10,
     -10,   0,   5,   0,   0,   0,   0, -10,
     -20, -10, -10,  -5,  -5, -10, -10, -20>>

kingMiddleGameTable ==
  <<-30, -40, -40, -50, -50, -40, -40, -30,
     -30, -40, -40, -50, -50, -40, -40, -30,
     -30, -40, -40, -50, -50, -40, -40, -30,
     -30, -40, -40, -50, -50, -40, -40, -30,
     -20, -30, -30, -40, -40, -30, -30, -20,
     -10, -20, -20, -20, -20, -20, -20, -10,
      20,  20,   0,   0,   0,   0,  20,  20,
      20,  30,  10,   0,   0,  10,  30,  20>>

pieceSquareTables ==
  [p |-> pawnTable, n |-> knightTable, b |-> bishopTable,
   r |-> rookTable, q |-> queenTable, k |-> kingMiddleGameTable]

\* a square is given as written: <<file, digit>>; every colour reads the
\* table through the same orientation
getSquareIndex_sameWay(square, color) ==
  LET file == square[1]
      rank == square[2] - 1
  IN  (7 - rank) * 8 + file

getSquareIndex(square, color) ==
  LET file == square[1]
      rank == square[2] - 1
  IN  IF color = "w" THEN (7 - rank) * 8 + file ELSE rank * 8 + file

MateScore == 30000
MobilityWeight == 10
CheckPenalty == 200
DoubledPenalty == 20

evaluatePawnStructure(chess) ==
  LET b == board(chess)
      pawns(file, color) ==
        Cardinality({rank \in 0..7 : /\ b[rank][file].type = "p"
                                     /\ b[rank][file].color = color})
  IN  SumOver(Files,
              [file \in Files |->
                 (IF pawns(file, "w") > 1
                  THEN -((pawns(file, "w") - 1) * DoubledPenalty) ELSE 0)
                 + (IF pawns(file, "b") > 1
                    THEN (pawns(file, "b") - 1) * DoubledPenalty ELSE 0)])

\* the material and placement term of the piece found at row `rank`, column
\* `file` of the board array
SquareTerm(b, rank, file) ==
  LET square == b[rank][file]
  IN  IF square.type = "none" THEN 0
      ELSE LET squareNotation == <<file, rank + 1>>
               squareIndex == getSquareIndex(squareNotation, square.color)
               value == pieceValues[square.type]
                          + pieceSquareTables[square.type][squareIndex + 1]
           IN  IF square.color = "w" THEN value ELSE -value

evaluatePosition(chess) ==
  IF isCheckmate(chess)
  THEN IF chess.turn = "w" THEN -MateScore ELSE MateScore
  ELSE IF isDraw(chess) \/ isStalemate(chess) \/ isThreefoldRepetition(chess)
  THEN 0
  ELSE LET b == board(chess)
           cells == (0..7) \X Files
           legalMoves == moves(chess)
       IN  SumOver(cells, [c \in cells |-> SquareTerm(b, c[1], c[2])])
             + (IF chess.turn = "w" THEN legalMoves * MobilityWeight
                ELSE -(legalMoves * MobilityWeight))
             + (IF inCheck(chess)
                THEN IF chess.turn = "w" THEN -CheckPenalty ELSE CheckPenalty
                ELSE 0)
             + evaluatePawnStructure(chess)

\* the colour-reversed mirror of a position: ranks flipped, colours swapped,
\* the other side to move, the same history
Mirror(chess) ==
  [pieces |-> {[p EXCEPT !.color = Opposite(p.color), !.rank = 9 - p.rank] :
                 p \in chess.pieces},
   turn |-> Opposite(chess.turn),
   history |-> chess.history]

MaxExtra == 2
\* <<white king, black king>>
KingSquares ==
  {<<<<6, 6>>, <<7, 8>>>>, <<<<7, 1>>, <<6, 3>>>>, <<<<4, 1>>, <<4, 6>>>>}
\* the other pieces: <<square, kinds of piece put on it>>
ExtraSquares ==
  {<<<<0, 8>>, {"r"}>>, <<<<0, 1>>, {"r"}>>,
   <<<<5, 7>>, {"q", "n", "p"}>>, <<<<5, 2>>, {"q", "n", "p"}>>,
   <<<<3, 4>>, {"p", "b"}>>, <<<<3, 5>>, {"p", "b"}>>}
ExtraPieces ==
  UNION {{[type |-> t, color |-> c, file |-> e[1][1], rank |-> e[1][2]] :
            t \in e[2], c \in {"w", "b"}} : e \in ExtraSquares}

RECURSIVE ExtraSets(_)
ExtraSets(n) ==
  IF n = 0 THEN {{}}
  ELSE LET prev == ExtraSets(n - 1)
       IN  prev \cup
             UNION {{S \cup {e} : e \in {x \in ExtraPieces :
                                          OnSquare(S, x.file, x.rank) = {}}} :
                    S \in prev}

\* the positions with at most n pieces besides the kings; the side that is
\* not to move is never in check
Positions(n) ==
  {c \in [pieces : {S \cup {[type |-> "k", color |-> "w",
                             file |-> k[1][1], rank |-> k[1][2]],
                            [type |-> "k", color |-> "b",
                             file |-> k[2][1], rank |-> k[2][2]]} :
                      S \in ExtraSets(n), k \in KingSquares},
          turn : {"w", "b"},
          history : {"none", "fifty", "threefold"}] :
     ~Attacked(c.pieces, Opposite(c.turn))}

Evaluate ==
  /\ call.fn = "evaluate"
  /\ ret.fn = "none"
  /\ ret' = [fn |-> "evaluate",
             score |-> evaluatePosition(call.chess),
             mirror |-> evaluatePosition(Mirror(call.chess))]
  /\ UNCHANGED <<poolVars, envVars, pipeVars, call, workerVars, boardVars>>

InitEvaluate ==
  /\ PoolInit /\ PipeOff /\ WorkerInit /\ BoardInit
  /\ call \in {[fn |-> "evaluate", chess |-> c] : c \in Positions(MaxExtra)}
  /\ ret = [fn |-> "none"]

NextEvaluate == Evaluate

SpecEvaluate == InitEvaluate /\ [][NextEvaluate]_vars

\* ---------------------------------------------------- one chess worker
\* The positions submitted to a worker, and the rules as far as the engine's
\* lines need them: from each position its line can be played move by move;
\* "start" is the position of new Chess().
WorkerFens == {"start", "wmid", "bmid"}
LineFrom(fen) ==
  CASE fen = "start" -> <<"g1f3", "g8f6">>
    [] fen = "wmid" -> <<"d1h5", "g8f6">>
    [] fen = "bmid" -> <<"g8f6", "g1f3">>

\* chess.move(uciMove) in the position reached from fen after n moves of
\* its line: accepted or thrown
Accepts(fen, n, uciMove) ==
  n < Len(LineFrom(fen)) /\ LineFrom(fen)[n + 1] = uciMove

\* pv.map(uciMove => try chess.move ... catch null).filter(Boolean) on a
\* Chess object that stands at fen
RECURSIVE ReplayFrom(_, _, _)
ReplayFrom(fen, n, line) ==
  IF line = <<>> THEN <<>>
  ELSE IF Accepts(fen, n, Head(line))
       THEN <<Head(line)>> \o ReplayFrom(fen, n + 1, Tail(line))
       ELSE ReplayFrom(fen, n, Tail(line))

\* the position completeAnalysis replays the line from
ReplayBase(fen) == "start"

\* the key of an analysis: `${fen}_depth_${depth}_${Math.random()}`; the id of
\* the message stands for the random part
AnalysisKey(fen, m) == <<fen, m>>
FenPart(key) == key[1]

\* a record of the worker's variables that the functions below work on
WorkerState ==
  [analysisQueue |-> analysisQueue, currentAnalysisId |-> currentAnalysisId,
   pv |-> pv, engine |-> engine, handlers |-> handlers, posted |-> posted]

SetWorker(s) ==
  /\ analysisQueue' = s.analysisQueue
  /\ currentAnalysisId' = s.currentAnalysisId
  /\ pv' = s.pv
  /\ engine' = s.engine
  /\ handlers' = s.handlers
  /\ posted' = s.posted

\* processNextAnalysis
processNextAnalysis(s) ==
  IF s.currentAnalysisId # "null" \/ s.analysisQueue = <<>> THEN s
  ELSE LET nextId == Head(s.analysisQueue)
       IN  [s EXCEPT !.currentAnalysisId = nextId,
                     !.engine.goes = Append(@, [fen |-> FenPart(nextId),
                                                told |-> FALSE])]

\* analyzePosition(fen, depth) called by the handler of message m
analyzePosition(s, fen, m) ==
  LET s1 == [s EXCEPT !.analysisQueue = Append(@, AnalysisKey(fen, m)),
                      !.handlers[m].at = "analysing"]
  IN  IF s1.currentAnalysisId = "null" THEN processNextAnalysis(s1) ELSE s1

\* the handler of message m goes on after `await analyzePosition` and posts
\* its result; in its catch block it posts an error
PostResult(s, key, line) ==
  [s EXCEPT !.handlers[key[2]].at = "done",
            !.posted = Append(@, [type |-> "result", id |-> key[2],
                                  fen |-> key[1], moves |-> line])]
PostError(s, m) ==
  [s EXCEPT !.handlers[m].at = "done",
            !.posted = Append(@, [type |-> "error", id |-> m])]

\* completeAnalysis
completeAnalysis(s) ==
  IF s.currentAnalysisId = "null" THEN s
  ELSE LET key == s.currentAnalysisId
       IN  IF \E i \in 1..Len(s.analysisQueue) : s.analysisQueue[i] = key
           THEN LET replayed == ReplayFrom(ReplayBase(FenPart(key)), 0, s.pv)
                    s1 == PostResult(s, key, replayed)
                    s2 == [s1 EXCEPT
                             !.analysisQueue = SelectSeq(@, LAMBDA k : k # key),
                             !.currentAnalysisId = "null",
                             !.pv = <<>>]
                IN  processNextAnalysis(s2)
           ELSE s

\* an 'error' reply has been posted
ErrorPosted == \E i \in 1..Len(posted) : posted[i].type = "error"

\* self.onmessage for { type: 'analyze', data: { fen, depth, id } }; the
\* handler's record keeps whether an error had been posted when it started
RecvAnalyze(m, fen) ==
  /\ call.fn = "worker"
  /\ handlers[m].at = "none"
  /\ \A k \in MsgIds : k < m => handlers[k].at # "none"
  /\ LET h == [at |-> "init", fen |-> fen, afterError |-> ErrorPosted] IN
     IF stockfish = "null"
     THEN \* initStockfish creates the engine and waits for 'readyok'
          /\ stockfish' = "created"
          /\ initPromise' = "pending"
          /\ initTimer' = TRUE
          /\ engine' = [engine EXCEPT !.state = "loading"]
          /\ handlers' = [handlers EXCEPT ![m] = h]
          /\ UNCHANGED <<ready, analysisQueue, currentAnalysisId, pv, posted>>
     ELSE \* initStockfish returns at once
          /\ SetWorker(analyzePosition([WorkerState EXCEPT !.handlers[m] = h],
                                       fen, m))
          /\ UNCHANGED <<stockfish, ready, initPromise, initTimer>>
  /\ UNCHANGED <<poolVars, envVars, pipeVars, fnVars, boardVars>>

\* the handler that awaits initStockfish, if any
Initialising == {m \in MsgIds : handlers[m].at = "init"}

\* the engine has loaded and answers 'isready': stockfish.onmessage('readyok')
EngineReady ==
  /\ engine.state = "loading"
  /\ ready' = TRUE
  /\ initPromise' = IF initPromise = "pending" THEN "resolved" ELSE initPromise
  /\ LET s0 == [WorkerState EXCEPT !.engine.state = "up"]
     IN  IF initPromise = "pending" /\ Initialising # {}
         THEN LET m == CHOOSE k \in Initialising : TRUE
              IN  SetWorker(analyzePosition(s0, handlers[m].fen, m))
         ELSE SetWorker(s0)
  /\ UNCHANGED <<stockfish, initTimer>>
  /\ UNCHANGED <<poolVars, envVars, pipeVars, fnVars, boardVars>>

\* initStockfish rejects: the handler that awaits it posts an error
RejectInit(s) ==
  IF initPromise = "pending" /\ Initialising # {}
  THEN PostError(s, CHOOSE k \in Initialising : TRUE)
  ELSE s

\* the engine fails to load: stockfish.onerror
EngineFails ==
  /\ engine.state = "loading"
  /\ initPromise' = IF initPromise = "pending" THEN "rejected" ELSE initPromise
  /\ SetWorker(RejectInit([WorkerState EXCEPT !.engine.state = "dead"]))
  /\ UNCHANGED <<stockfish, ready, initTimer>>
  /\ UNCHANGED <<poolVars, envVars, pipeVars, fnVars, boardVars>>

\* the 10 s timer of initStockfish fires
InitTimeout ==
  /\ initTimer
  /\ initTimer' = FALSE
  /\ IF ~ready
     THEN /\ initPromise' = IF initPromise = "pending" THEN "rejected"
                            ELSE initPromise
          /\ SetWorker(RejectInit(WorkerState))
     ELSE /\ UNCHANGED initPromise
          /\ SetWorker(WorkerState)
  /\ UNCHANGED <<stockfish, ready>>
  /\ UNCHANGED <<poolVars, envVars, pipeVars, fnVars, boardVars>>

\* the engine reports the line of the search it is on: handleStockfishMessage
\* on an 'info depth ... score ... pv ...' line
EngineInfo ==
  /\ engine.state = "up"
  /\ engine.goes # <<>>
  /\ ~Head(engine.goes).told
  /\ LET s0 == [WorkerState EXCEPT !.engine.goes[1].told = TRUE]
     IN  SetWorker(IF currentAnalysisId = "null" THEN s0
                   ELSE [s0 EXCEPT !.pv = LineFrom(Head(engine.goes).fen)])
  /\ UNCHANGED <<stockfish, ready, initPromise, initTimer>>
  /\ UNCHANGED <<poolVars, envVars, pipeVars, fnVars, boardVars>>

\* the engine ends the search it is on: handleStockfishMessage on 'bestmove'
EngineBestmove ==
  /\ engine.state = "up"
  /\ engine.goes # <<>>
  /\ Head(engine.goes).told
  /\ SetWorker(completeAnalysis([WorkerState EXCEPT !.engine.goes = Tail(@)]))
  /\ UNCHANGED <<stockfish, ready, initPromise, initTimer>>
  /\ UNCHANGED <<poolVars, envVars, pipeVars, fnVars, boardVars>>

\* self.onmessage for { type: 'clear-cache' } (WorkerPool.clearCache)
MaxClears == 1
RecvClearCache ==
  /\ call.fn = "worker"
  /\ call.clears < MaxClears
  /\ call' = [call EXCEPT !.clears = @ + 1]
  /\ analysisQueue' = <<>>
  /\ currentAnalysisId' = "null"
  /\ UNCHANGED <<stockfish, ready, initPromise, initTimer, engine, pv, handlers,
                 posted>>
  /\ UNCHANGED <<poolVars, envVars, pipeVars, ret, boardVars>>

InitWorker ==
  /\ PoolInit /\ PipeOff /\ WorkerInit /\ BoardInit
  /\ call = [fn |-> "worker", clears |-> 0]
  /\ ret = [fn |-> "none"]

NextWorker ==
  \/ \E m \in MsgIds, fen \in WorkerFens : RecvAnalyze(m, fen)
  \/ RecvClearCache
  \/ EngineReady
  \/ EngineFails
  \/ InitTimeout
  \/ EngineInfo
  \/ EngineBestmove

\* the engine and the timer take their steps: a loading engine ends up ready
\* or failed, an armed timer fires, a running engine reports and ends each
\* search it was asked for
SpecWorker ==
  /\ InitWorker /\ [][NextWorker]_vars
  /\ WF_vars(EngineReady \/ EngineFails)
  /\ WF_vars(InitTimeout)
  /\ WF_vars(EngineInfo)
  /\ WF_vars(EngineBestmove)

\* ------------------------------------------------------ one interactive board
\* The position on the board is the list of the moves (in SAN) played from
\* initialFen. The solution handed to the board is a line that is legal from
\* initialFen, of MinSolution to MaxSolution moves.
MaxResets == 1
MaxAttempts == 1

SolutionLine == <<"Qh5+", "Ke7", "Qxe5+", "Kf7", "Bc4#">>
Solutions == {SubSeq(SolutionLine, 1, n) : n \in MinSolution..MaxSolution}

\* solution[i] of the code (indices from 0); undefined past the end
SolutionAt(i) ==
  IF i < Len(call.solution) THEN call.solution[i + 1] ELSE "undefined"

\* the moves the rules allow in a position, by their SAN: the next move of
\* the line while the position is on it, and a quiet move off the line
LegalSans(chess) ==
  {"a3"} \cup
    (IF /\ Len(chess) < Len(call.solution)
        /\ chess = SubSeq(call.solution, 1, Len(chess))
     THEN {call.solution[Len(chess) + 1]} ELSE {})

\* handleSquareClick with no square selected, on a piece of the side to move
SelectSquare ==
  /\ call.fn = "board"
  /\ selectedSquare = "null"
  /\ selectedSquare' = "square"
  /\ UNCHANGED <<chessState, currentMoveIndex, message, showingSolution,
                 timeouts, attempts, solved, onCorrectCalls, resets,
                 untouched>>
  /\ UNCHANGED <<poolVars, envVars, pipeVars, fnVars, workerVars>>

\* handleSquareClick with a square selected, when the rules refuse the move:
\* newChess.move either returns null, and makeMove returns false, or throws,
\* and the handler ends there (which of the two depends on the chess.js
\* release the bundle was built with)
ClickIllegal(throws) ==
  /\ call.fn = "board"
  /\ selectedSquare # "null"
  /\ selectedSquare' = IF throws THEN selectedSquare ELSE "null"
  /\ untouched' = FALSE
  /\ UNCHANGED <<chessState, currentMoveIndex, message, showingSolution,
                 timeouts, attempts, solved, onCorrectCalls, resets>>
  /\ UNCHANGED <<poolVars, envVars, pipeVars, fnVars, workerVars>>

\* handleSquareClick with a square selected, when the move is legal: makeMove
\* on the expected move of the solution, on its last move, or on another move
ClickMove(san) ==
  /\ call.fn = "board"
  /\ selectedSquare # "null"
  /\ san \in LegalSans(chessState)
  /\ LET newChess == Append(chessState, san)
         expectedMove == SolutionAt(currentMoveIndex)
     IN  IF san = expectedMove
         THEN /\ chessState' = newChess
              /\ IF currentMoveIndex = Len(call.solution) - 1
                 THEN /\ message' = "Perfect! You solved it!"
                      /\ onCorrectCalls' = onCorrectCalls + 1
                      /\ solved' = TRUE
                      /\ UNCHANGED <<currentMoveIndex, timeouts>>
                 ELSE /\ currentMoveIndex' = currentMoveIndex + 1
                      /\ message' = "Correct! Continue..."
                      /\ timeouts' =
                           IF currentMoveIndex + 1 < Len(call.solution)
                           THEN Append(timeouts,
                                  [newChess |-> newChess,
                                   currentMoveIndex |-> currentMoveIndex])
                           ELSE timeouts
                      /\ UNCHANGED <<onCorrectCalls, solved>>
              /\ UNCHANGED attempts
         ELSE /\ attempts < MaxAttempts
              /\ message' = "Not quite! Try again or reset."
              /\ attempts' = attempts + 1
              /\ UNCHANGED <<chessState, currentMoveIndex, timeouts,
                             onCorrectCalls, solved>>
  /\ selectedSquare' = "null"
  /\ untouched' = FALSE
  /\ UNCHANGED <<showingSolution, resets>>
  /\ UNCHANGED <<poolVars, envVars, pipeVars, fnVars, workerVars>>

\* the callback handed to setTimeout runs, 500 ms after the move that set it:
\* it plays the reply on the position it captured and sets the index from the
\* index it captured. All delays are equal, so callbacks run in the order
\* they were set
TimeoutFires ==
  /\ call.fn = "board"
  /\ timeouts # <<>>
  /\ LET t == Head(timeouts)
     IN  /\ chessState' =
               Append(t.newChess, SolutionAt(t.currentMoveIndex + 1))
         /\ currentMoveIndex' = t.currentMoveIndex + 2
  /\ message' = "Your turn again!"
  /\ timeouts' = Tail(timeouts)
  /\ UNCHANGED <<selectedSquare, showingSolution, attempts, solved,
                 onCorrectCalls, resets, untouched>>
  /\ UNCHANGED <<poolVars, envVars, pipeVars, fnVars, workerVars>>

\* the Reset button
reset ==
  /\ call.fn = "board"
  /\ resets < MaxResets
  /\ chessState' = <<>>
  /\ selectedSquare' = "null"
  /\ currentMoveIndex' = 0
  /\ message' = "Your turn! Make the best move."
  /\ showingSolution' = FALSE
  /\ resets' = resets + 1
  /\ untouched' = TRUE
  /\ UNCHANGED <<timeouts, attempts, solved, onCorrectCalls>>
  /\ UNCHANGED <<poolVars, envVars, pipeVars, fnVars, workerVars>>

\* the Show Solution button, disabled while the solution is shown
showSolution ==
  /\ call.fn = "board"
  /\ ~showingSolution
  /\ showingSolution' = TRUE
  /\ chessState' = call.solution
  /\ message' = "Solution"
  /\ currentMoveIndex' = Len(call.solution)
  /\ untouched' = FALSE
  /\ UNCHANGED <<selectedSquare, timeouts, attempts, solved, onCorrectCalls,
                 resets>>
  /\ UNCHANGED <<poolVars, envVars, pipeVars, fnVars, workerVars>>

InitBoard ==
  /\ PoolInit /\ PipeOff /\ WorkerInit /\ BoardInit
  /\ call \in {[fn |-> "board", solution |-> s] : s \in Solutions}
  /\ ret = [fn |-> "none"]

NextBoard ==
  \/ SelectSquare
  \/ \E throws \in BOOLEAN : ClickIllegal(throws)
  \/ \E san \in {"a3"} \cup {SolutionLine[i] : i \in 1..Len(SolutionLine)} :
       ClickMove(san)
  \/ TimeoutFires
  \/ reset
  \/ showSolution

SpecBoard == InitBoard /\ [][NextBoard]_vars

\* ----------------------------------------------------------------- claims
NoFault == ~terminated /\ faults = 0
AllReplied == \A w \in WorkerIds : inbox[w] = <<>>

\* C1: with no crash and no terminate, no promise is settled twice, and once
\* every dispatched task has had its reply every submitted promise is settled
\* exactly once and getStatus() reports queuedTasks = 0 and runningTasks = 0.
C1_AllSettledOnce ==
  NoFault =>
    /\ \A t \in TaskIds : settles(t) <= 1
    /\ AllReplied =>
         /\ \A t \in TaskIds : promise[t + 1] # "pending" /\ settles(t) = 1
         /\ getStatus.queuedTasks = 0
         /\ getStatus.runningTasks = 0

C1_Witness ==
  /\ NoFault /\ AllReplied
  /\ nextTaskId = MaxTasks /\ nextTaskId > NumWorkers
  /\ choseAmong
  /\ \A t \in TaskIds : settles(t) = 1

\* C2: after terminate(), every promise that was unsettled when it was called
\* is rejected.
C2_TerminateRejects ==
  \A t \in unsettledAtTerminate : promise[t + 1] = "rejected"

\* C3: after worker.onerror fired for a worker, the promise of every task
\* that worker was running is rejected.
C3_CrashRejects ==
  \A t \in crashedTasks : promise[t + 1] = "rejected"

\* C4: tasks are dispatched in submission order: the ids in the dispatch log
\* are strictly increasing.
C4_DispatchFifo ==
  \A i, j \in 1..Len(dispatchLog) : i < j => dispatchLog[i] < dispatchLog[j]

C4_Witness ==
  /\ choseAmong
  /\ Len(dispatchLog) = MaxTasks

\* the candidate moves of the batch, in game order then move order: every
\* index i of a loadable game with OpeningHorizon <= i < length - TailExclusion
\* whose position the replay reaches
Occurrences ==
  UNION {{<<g, i>> : i \in OpeningHorizon..
                             Min(Len(games[g].history) - TailExclusion - 1,
                                 games[g].failsAt)} :
         g \in {h \in 1..Len(games) : games[h].ok}}

FenAt(o) == <<o[2], games[o[1]].history[o[2] + 1].board>>
Before(o1, o2) == o1[1] < o2[1] \/ (o1[1] = o2[1] /\ o1[2] < o2[2])
\* the first occurrence of each distinct position
FirstOccurrences ==
  LET occ == Occurrences
  IN  {o \in occ : \A o2 \in occ : FenAt(o2) = FenAt(o) => ~Before(o2, o)}

Scanned == pc \in {"await", "filter", "final", "done"}

\* every 'analyze' message the pool holds, queued or with a worker
HeldTasks ==
  {taskQueue[i] : i \in 1..Len(taskQueue)}
    \cup UNION {{inbox[w][i] : i \in 1..Len(inbox[w])} : w \in WorkerIds}

\* C5: every tactic generateTactics returns comes from a candidate whose
\* engine line is not empty and starts with the SAN of the move played there.
C5_OnlyMatchingTopMove ==
  pc = "done" =>
    \A i \in 1..Len(finalTactics) :
      \E k \in 1..Len(analysisResults) :
        LET res == analysisResults[k]
        IN  /\ res.status = "ok"
            /\ res.fenBefore = finalTactics[i].fen
            /\ LET line == Engine(res.bestContinuation.fen[2]).moves
               IN  line # <<>> /\ line[1] = positionsToAnalyze[k].actualMove

C5_Witness ==
  /\ pc = "done"
  /\ Len(finalTactics) = 1
  /\ \E k \in 1..Len(analysisResults) :
       LET res == analysisResults[k]
       IN  /\ res.status = "ok"
           /\ LET line == Engine(res.bestContinuation.fen[2]).moves
              IN  line # <<>> /\ line[1] # positionsToAnalyze[k].actualMove

\* C6: the returned list holds at most MaxPerDifficulty tactics of each
\* difficulty and at most MaxFinal tactics.
C6_Quotas ==
  pc = "done" =>
    /\ Len(finalTactics) <= MaxFinal
    /\ \A d \in Difficulties :
         Cardinality({i \in 1..Len(finalTactics) :
                        finalTactics[i].difficulty = d}) <= MaxPerDifficulty

C6_Witness ==
  /\ pc = "done"
  /\ Len(tactics) > MaxFinal
  /\ Len(finalTactics) = MaxFinal
  /\ \E d \in Difficulties :
       /\ Cardinality({i \in 1..Len(tactics) : tactics[i].difficulty = d})
            > MaxPerDifficulty
       /\ Cardinality({i \in 1..Len(finalTactics) :
                         finalTactics[i].difficulty = d}) = MaxPerDifficulty

\* C7: the percentages passed to onProgress within a run never decrease and
\* stay within 0..100.
FracLeq(a, b) == a[1] * b[2] <= b[1] * a[2]

C7_ProgressMonotone ==
  /\ \A i \in 1..Len(progressLog) :
       FracLeq(<<0, 1>>, progressLog[i]) /\ FracLeq(progressLog[i], <<100, 1>>)
  /\ \A i \in 1..(Len(progressLog) - 1) :
       FracLeq(progressLog[i], progressLog[i + 1])

\* the list a run returns when every candidate is analysed in turn, one
\* after the other, in submission order
RECURSIVE ScanAll(_, _, _)
ScanAll(g, seen, acc) ==
  IF g > Len(games) THEN acc
  ELSE LET r == ScanGame(games[g], g - 1, seen, acc)
       IN  ScanAll(g + 1, r.seen, r.acc)

SequentialRun ==
  LET ps == ScanAll(1, {}, <<>>)
  IN  SelectFinal(FilterFrom([k \in 1..Len(ps) |-> ResultOf(ps[k], k - 1)],
                             1, <<>>))

\* C8: whatever the order in which the analyses complete, each result sits
\* with the candidate it was submitted for, and the returned list is the one
\* of the run that analyses the candidates one after the other.
C8_OrderIndependent ==
  /\ \A k \in 1..Len(analysisResults) :
       analysisResults[k].status = "ok" =>
         /\ analysisResults[k].bestContinuation.fen
              = positionsToAnalyze[k].fenBefore
         /\ analysisResults[k].bestContinuation.id = taskBase + k - 1
  /\ pc = "done" => finalTactics = SequentialRun

C8_Witness ==
  /\ pc = "done"
  /\ Len(finalTactics) = 2
  /\ outOfOrder

\* C9: the candidates are the first occurrences, in game order then move
\* order, of the distinct positions of the batch, each with the move and the
\* URL of that occurrence, and each position is submitted to the pool once.
C9_FirstOccurrenceOnly ==
  Scanned =>
    LET firsts == FirstOccurrences
        n == Len(positionsToAnalyze)
    IN  /\ n = Cardinality(firsts)
        /\ \A k \in 1..n :
             LET pos == positionsToAnalyze[k]
                 o == <<pos.gameIndex + 1, pos.moveIndex>>
             IN  /\ o \in firsts
                 /\ pos.fenBefore = FenAt(o)
                 /\ pos.gameUrl = games[o[1]].url
                 /\ pos.actualMove = games[o[1]].history[o[2] + 1].san
        /\ \A k1, k2 \in 1..n :
             k1 < k2 =>
               Before(<<positionsToAnalyze[k1].gameIndex + 1,
                        positionsToAnalyze[k1].moveIndex>>,
                      <<positionsToAnalyze[k2].gameIndex + 1,
                        positionsToAnalyze[k2].moveIndex>>)
        /\ nextTaskId = taskBase + n
        /\ \A t \in HeldTasks :
             t.fen = positionsToAnalyze[t.id - taskBase + 1].fenBefore

C9_Witness ==
  /\ pc = "done"
  /\ Len(positionsToAnalyze) = 1
  /\ Cardinality(Occurrences) = 2
  /\ \E o1, o2 \in Occurrences :
       /\ o1[1] # o2[1]
       /\ FenAt(o1) = FenAt(o2)
       /\ games[o1[1]].history[o1[2] + 1].san
            # games[o2[1]].history[o2[2] + 1].san

\* C10: once no reply can arrive any more (nothing queued, no worker holds a
\* message) a run in which an analysis was left unanswered has gone past its
\* await.
C10_ReturnsDespiteLoss ==
  (lostTasks # {} /\ AllReplied /\ taskQueue = <<>>)
    => pc \in {"filter", "final", "done"}

\* the tasks of the run: candidate k is task taskBase + k - 1
RunPromise(k) == promise[taskBase + k]

LoadFails(game) == ~game.ok
ScanThrows(game) ==
  /\ game.ok
  /\ \E i \in OpeningHorizon..(Len(game.history) - TailExclusion - 1) :
       game.failsAt < i

\* C12: once the scan is over, no candidate and no seen position comes from a
\* game that failed to load or whose replay threw.
C12_FailedGameSkipped ==
  Scanned =>
    \A g \in 1..Len(games) :
      (LoadFails(games[g]) \/ ScanThrows(games[g])) =>
        \A k \in 1..Len(positionsToAnalyze) :
          positionsToAnalyze[k].gameIndex # g - 1

\* the engine's line for the position of a tactic and how many of its moves
\* replay legally from that position
LineOf(t) == Engine(t.fen[2]).moves
LegalOf(t) == Engine(t.fen[2]).legal

\* C13: every returned tactic has a solution of MinSolution to MaxSolution
\* moves, which is a prefix of the engine's line made only of moves that
\* replay legally from the tactic's position; it is the whole legal prefix
\* unless that is longer than MaxSolution.
C13_SolutionLegalPrefix ==
  pc = "done" =>
    \A i \in 1..Len(finalTactics) :
      LET t == finalTactics[i]
          n == Len(t.solution)
      IN  /\ n >= MinSolution /\ n <= MaxSolution
          /\ n <= Len(LineOf(t))
          /\ t.solution = SubSeq(LineOf(t), 1, n)
          /\ n = Min(MaxSolution, Min(LegalOf(t), Len(LineOf(t))))

\* a run that returns a solution cut at MaxSolution, one cut at the first
\* illegal move, and leaves out a candidate whose legal prefix is too short
C13_Witness ==
  /\ pc = "done"
  /\ \E i \in 1..Len(finalTactics) :
       /\ Len(finalTactics[i].solution) = MaxSolution
       /\ Len(LineOf(finalTactics[i])) > MaxSolution
  /\ \E i \in 1..Len(finalTactics) :
       /\ Len(finalTactics[i].solution) = LegalOf(finalTactics[i])
       /\ Len(LineOf(finalTactics[i])) > LegalOf(finalTactics[i])
  /\ \E k \in 1..Len(analysisResults) :
       /\ analysisResults[k].status = "ok"
       /\ Engine(analysisResults[k].fenBefore[2]).legal < MinSolution
       /\ Engine(analysisResults[k].fenBefore[2]).legal > 0

\* the candidates of the run that pass the acceptance tests, as tactics
Passing ==
  {TacticOf(analysisResults[k])[1] :
     k \in {j \in 1..Len(analysisResults) :
              /\ analysisResults[j].status = "ok"
              /\ TacticOf(analysisResults[j]) # <<>>}}

\* how many returned tactics (of difficulty d) have a swing of at least e
ReturnedAtLeast(e) ==
  Cardinality({i \in 1..Len(finalTactics) : finalTactics[i].evaluation >= e})
ReturnedInTierAtLeast(d, e) ==
  Cardinality({i \in 1..Len(finalTactics) :
                 /\ finalTactics[i].difficulty = d
                 /\ finalTactics[i].evaluation >= e})

\* C14: the returned list is in non-increasing order of swing, and a passing
\* candidate is missing from it only when MaxPerDifficulty returned tactics of
\* its difficulty, or MaxFinal returned tactics, have a swing at least its own.
C14_HighestSwingSelected ==
  pc = "done" =>
    /\ \A i \in 1..(Len(finalTactics) - 1) :
         finalTactics[i].evaluation >= finalTactics[i + 1].evaluation
    /\ \A t \in Passing :
         \/ \E i \in 1..Len(finalTactics) : finalTactics[i] = t
         \/ ReturnedInTierAtLeast(t.difficulty, t.evaluation) >= MaxPerDifficulty
         \/ ReturnedAtLeast(t.evaluation) >= MaxFinal

\* the swing of a classified call: the distance between the two scores
SwingOf(c) == Abs(c.f.afterEval - c.f.beforeEval)

C16_Difficulty ==
  ret.fn = "classify" =>
    /\ ret.info.difficulty =
         IF SwingOf(call) > SwingHard \/ call.f.mates \/ call.f.contMate
         THEN "hard"
         ELSE IF SwingOf(call) > SwingMedium \/ Len(ret.info.patterns) > 1
              THEN "medium" ELSE "easy"
    /\ call.f.mates =>
         /\ ret.info.patterns = <<"mate-threat">>
         /\ ret.info.difficulty = "hard"

\* a mating move that also checks, forks and pins, on a swing below every
\* threshold, with a continuation
C16_Witness ==
  /\ ret.fn = "classify"
  /\ call.f.mates /\ call.f.givesCheck /\ call.f.fork /\ call.f.pin
  /\ ~call.f.contMate
  /\ call.continuation # <<>>
  /\ SwingOf(call) <= SwingCheck
  /\ ret.info.difficulty = "hard"

\* the root move of a returned line
RootMove(r) == IF r.moves = <<>> THEN "none" ELSE r.moves[1]

\* C17: for a position and a depth, findBestLine returns the same score and
\* the same root move whatever the arrangement of the legal moves.
C17_OrderIndependent ==
  ret.fn = "search" =>
    \A a, b \in Arrangements :
      /\ ret.result[a].score = ret.result[b].score
      /\ RootMove(ret.result[a]) = RootMove(ret.result[b])

\* C18: once more than NodeCeiling calls of the search were made, no further
\* call goes on to search its moves.
C18_NodeCeiling ==
  ret.fn = "search" => \A a \in Arrangements : ret.result[a].late = 0

\* C19: evaluatePosition gives the same score each time it is applied to a
\* position, and the score of the colour-reversed mirror of a position is the
\* negation of the score of the position.
C19_ColourSymmetric ==
  ret.fn = "evaluate" =>
    /\ ret.score = evaluatePosition(call.chess)
    /\ ret.mirror = -ret.score

\* a position with doubled pawns whose side to move is in check, not mated,
\* and has a move, with a score other than 0
C19_Witness ==
  /\ ret.fn = "evaluate"
  /\ ret.score # 0
  /\ inCheck(call.chess) /\ moves(call.chess) > 0
  /\ evaluatePawnStructure(call.chess) # 0
  /\ ret.mirror = -ret.score

\* C20: a 'result' or 'error' message whose task id is not pending settles no
\* promise, leaves every promise as it was, and its handler runs to its end
\* (the worker is given back and the queue processed) without dropping any
\* pending entry.
C20_LateReplyDiscarded ==
  \A r \in lateReplies : r.settled = {} /\ r.intact /\ r.completed

\* a late reply for a task already resolved, handled while another task was
\* pending with its promise unsettled
C20_Witness ==
  /\ \E r \in lateReplies :
       /\ promise[r.id + 1] = "resolved"
       /\ \E t \in pendingTasks : t # r.id /\ promise[t + 1] = "pending"
  /\ C20_LateReplyDiscarded

\* C21: after each step of the pool (analyze, the handling of a reply, the
\* handling of a worker error) no task waits in the queue while a worker is
\* in the idle list.
C21_WorkConserving ==
  taskQueue = <<>> \/ availableWorkers = <<>>

\* a task waits with every worker busy after an earlier one was taken from
\* the queue by the handler of a reply
C21_Witness ==
  /\ ~terminated /\ faults = 0
  /\ Len(dispatchLog) > NumWorkers
  /\ taskQueue # <<>>
  /\ availableWorkers = <<>>

\* the replies posted for message m
RepliesTo(m) == {i \in 1..Len(posted) : posted[i].id = m}

\* C22: a worker never posts two replies for one 'analyze' message, and for
\* every 'analyze' message it has received it eventually posts one.
C22_EveryAnalyzeAnswered ==
  /\ [](\A m \in MsgIds : Cardinality(RepliesTo(m)) <= 1)
  /\ \A m \in MsgIds :
       (handlers[m].at # "none") ~> (Cardinality(RepliesTo(m)) = 1)

\* C23: every 'analyze' message a worker receives after it has posted an
\* 'error' reply is eventually answered (unless a 'clear-cache' message
\* arrives).
C23_AnswersAfterError ==
  \A m \in MsgIds :
    (handlers[m].at # "none" /\ handlers[m].afterError)
      ~> (Cardinality(RepliesTo(m)) = 1 \/ call.clears > 0)

\* C27: the moves of every 'result' reply are the engine's line for the
\* submitted position replayed from that position: each of them is accepted
\* in the position reached by the ones before it.
C27_LineFromSubmitted ==
  \A i \in 1..Len(posted) :
    posted[i].type = "result" =>
      /\ ReplayFrom(posted[i].fen, 0, posted[i].moves) = posted[i].moves
      /\ posted[i].moves = ReplayFrom(posted[i].fen, 0, LineFrom(posted[i].fen))

\* how many times worker w is listed in the idle list
TimesIdle(w) ==
  Cardinality({i \in 1..Len(availableWorkers) : availableWorkers[i] = w})

\* C24: while the pool is not terminated, getStatus() reports
\* availableWorkers + runningTasks = totalWorkers, no worker is listed twice
\* in the idle list or listed there while it holds an 'analyze' message, and
\* no worker holds two 'analyze' messages.
C24_OneTaskPerWorker ==
  ~terminated =>
    /\ getStatus.availableWorkers + getStatus.runningTasks
         = getStatus.totalWorkers
    /\ \A w \in WorkerIds :
         /\ TimesIdle(w) <= 1
         /\ Len(inbox[w]) <= 1
         /\ TimesIdle(w) = 1 => inbox[w] = <<>>

\* C25: when analyzeTacticalPosition returns, the Chess object it was given
\* is as it was on entry: the same position and the same moves played on it.
C25_PositionRestored ==
  ret.fn = "classify" => ret.chess = call.chess

\* a call whose capturing move mates (detectPatterns returns early), with a
\* continuation
C25_Witness ==
  /\ ret.fn = "classify"
  /\ ret.chess = NewChess("fenBefore")
  /\ call.f.mates
  /\ call.f.isCapture
  /\ call.continuation # <<>>

\* C28: the test of the filter loop accepts exactly the candidates whose
\* evaluation swing (the absolute difference of the two evaluator scores) is
\* above 300: motifs, the check and capture thresholds and a mating
\* continuation do not change whether a candidate is accepted.
C28_AcceptedIffSwing ==
  ret.fn = "classify" =>
    (Accepted(ret.info) <=>
       Abs(call.f.afterEval - call.f.beforeEval) > AcceptSwing)

\* a candidate with a motif, a capture and a mating continuation whose swing
\* is not above 300: tactical, and not accepted
C28_Witness ==
  /\ ret.fn = "classify"
  /\ ret.info.isTactical
  /\ Len(ret.info.patterns) > 0
  /\ call.f.isCapture /\ call.f.contMate
  /\ ret.info.evalSwing <= AcceptSwing
  /\ ~Accepted(ret.info)

\* the value of a position by minimax of the evaluator's score over the whole
\* tree down to the given depth, and the number of positions of that tree
RECURSIVE PlainMinimax(_, _, _)
PlainMinimax(node, depth, isMaximizing) ==
  IF depth = 0 \/ node.over THEN node.score
  ELSE LET vals == {PlainMinimax(node.kids[i].node, depth - 1, ~isMaximizing) :
                      i \in 1..Len(node.kids)}
       IN  IF vals = {}
           THEN IF isMaximizing THEN -Infinity ELSE Infinity
           ELSE IF isMaximizing
                THEN CHOOSE v \in vals : \A u \in vals : u <= v
                ELSE CHOOSE v \in vals : \A u \in vals : u >= v

RECURSIVE TreeSize(_, _)
TreeSize(node, depth) ==
  IF depth = 0 \/ node.over THEN 1
  ELSE 1 + SumOver(1..Len(node.kids),
                   [i \in 1..Len(node.kids) |->
                      TreeSize(node.kids[i].node, depth - 1)])

\* C26: at depth 6 or less the score findBestLine returns is the minimax value
\* of the evaluator's score over the whole depth-limited tree, White
\* maximising and Black minimising, however the moves are arranged: the
\* cut-off at beta <= alpha does not change the score of the root.
C26_ScoreIsMinimax ==
  (ret.fn = "search" /\ call.depth <= WidthDepth) =>
    \A a \in Arrangements :
      ret.result[a].score =
        PlainMinimax(call.root.node, call.depth, call.root.white)

\* a three-ply search, Black to move, in which a cut-off left part of the
\* tree unvisited
C26_Witness ==
  /\ ret.fn = "search"
  /\ call.depth = 3
  /\ ~call.root.white
  /\ ret.result["listed"].cnt < TreeSize(call.root.node, call.depth)
  /\ ret.result["listed"].score = 10

\* C29: once every move of the solution has been played on the board, by
\* the user's correct moves and the replies played for the opponent (no
\* Reset, no Show Solution), onCorrect has been called exactly once.
C29_SolvedOnce ==
  (/\ call.fn = "board"
   /\ chessState = call.solution
   /\ ~showingSolution
   /\ resets = 0) => onCorrectCalls = 1

\* C30: after Reset, and until the user does something to the board, the
\* board shows the initial position and the move index is 0.
C30_ResetHolds ==
  untouched => (chessState = <<>> /\ currentMoveIndex = 0)

====
